---- MODULE Spec2Model ----
(***************************************************************************)
(* In-memory RDBMS: Index, Table, Database, QueryParser, QueryExecutor,    *)
(* the RDBMS facade and the REPL.                                          *)
(*                                                                         *)
(* JavaScript values are tagged records, so that values of different       *)
(* runtime types are never equal: 1 is [num |-> 1], 'a' is                 *)
(* [str |-> "a"], true is [bool |-> TRUE], null is [null |-> TRUE] and     *)
(* undefined is [undefined |-> TRUE].  A character is a string of length   *)
(* one.  An object or a Map is a function whose DOMAIN is the set of keys  *)
(* present.  Row positions are 0-based as in the code.                     *)
(***************************************************************************)
EXTENDS Integers, Sequences, FiniteSets, TLC

\* tables and tableOrder are the Map Database.tables: its entries and the
\* order of its keys (insertion order); history is REPL.history; call is
\* the call made last and result the value it returned.
VARIABLES tables, tableOrder, call, result, history

vars == <<tables, tableOrder, call, result, history>>

\* ---------------------------------------------------------------- bounds
MaxRows == 2
MaxHistory == 2
MaxOrderRows == 3

\* ---------------------------------------------------------------- values
Num(n) == [num |-> n]
Str(s) == [str |-> s]
Bool(b) == [bool |-> b]
Null == [null |-> TRUE]
Undefined == [undefined |-> TRUE]

TypeOf(v) ==
  IF "num" \in DOMAIN v THEN "number"
  ELSE IF "str" \in DOMAIN v THEN "string"
  ELSE IF "bool" \in DOMAIN v THEN "boolean"
  ELSE IF "null" \in DOMAIN v THEN "object"
  ELSE "undefined"

\* obj[key] of a JavaScript object: undefined when the key is absent
Get(obj, key) == IF key \in DOMAIN obj THEN obj[key] ELSE Undefined

\* obj[key] = value
Put(obj, key, value) ==
  [k \in DOMAIN obj \cup {key} |-> IF k = key THEN value ELSE obj[k]]

\* Map.delete(key)
Del(obj, key) == [k \in DOMAIN obj \ {key} |-> obj[k]]

EmptyMap == [k \in {} |-> Null]

\* ----------------------------------------------------------------- Index
\* An Index is its Map: value -> sequence of row positions.
add(index, value, rowIndex) ==
  IF value = Null THEN index
  ELSE LET existing == IF value \in DOMAIN index THEN index[value] ELSE <<>>
       IN Put(index, value, Append(existing, rowIndex))

remove(index, value, rowIndex) ==
  IF value = Null THEN index
  ELSE IF value \in DOMAIN index
       THEN LET filtered == SelectSeq(index[value], LAMBDA idx : idx # rowIndex)
            IN IF Len(filtered) = 0 THEN Del(index, value)
               ELSE Put(index, value, filtered)
       ELSE index

find(index, value) == IF value \in DOMAIN index THEN index[value] ELSE <<>>

clear(index) == EmptyMap

\* ----------------------------------------------------------------- Table
\* A Table is [schema, rows, indexes]; schema is [name, columns] plus
\* primaryKey when Database.createTable resolved one.
isIndexed(col) == col.primaryKey \/ col.unique

Table(schema) ==
  [schema |-> schema,
   rows |-> <<>>,
   indexes |-> [n \in {schema.columns[i].name : i \in
                  {j \in 1..Len(schema.columns) : isIndexed(schema.columns[j])}}
                |-> EmptyMap]]

validateType(value, type) ==
  CASE type = "string" -> TypeOf(value) = "string"
    [] type = "number" -> TypeOf(value) = "number"
    [] type = "boolean" -> TypeOf(value) = "boolean"
    [] OTHER -> FALSE

\* The validation loop of insert (Table.ts 29-52): the first failing column
\* returns the error, otherwise the completed newRow.
RECURSIVE insertLoop(_, _, _, _)
insertLoop(table, row, i, newRow) ==
  IF i > Len(table.schema.columns) THEN [success |-> TRUE, newRow |-> newRow]
  ELSE
    LET col == table.schema.columns[i]
        value == Get(row, col.name)
    IN IF value = Undefined \/ value = Null
       THEN IF ~col.nullable /\ ~col.primaryKey
            THEN [success |-> FALSE,
                  error |-> "Column " \o col.name \o " cannot be null"]
            ELSE insertLoop(table, row, i + 1, Put(newRow, col.name, Null))
       ELSE IF ~validateType(value, col.type)
       THEN [success |-> FALSE,
             error |-> "Invalid type for column " \o col.name]
       ELSE IF /\ isIndexed(col)
               /\ col.name \in DOMAIN table.indexes
               /\ Len(find(table.indexes[col.name], value)) > 0
       THEN [success |-> FALSE,
             error |-> "Duplicate value for "
                        \o (IF col.primaryKey THEN "primary key" ELSE "unique")
                        \o " column " \o col.name]
       ELSE insertLoop(table, row, i + 1, Put(newRow, col.name, value))

\* The index registration of insert (Table.ts 57-64)
RECURSIVE insertIndex(_, _, _, _)
insertIndex(table, newRow, rowIndex, i) ==
  IF i > Len(table.schema.columns) THEN table
  ELSE
    LET col == table.schema.columns[i]
        t2 == IF /\ isIndexed(col)
                 /\ col.name \in DOMAIN table.indexes
                 /\ newRow[col.name] # Null
              THEN [table EXCEPT !.indexes[col.name] =
                      add(@, newRow[col.name], rowIndex)]
              ELSE table
    IN insertIndex(t2, newRow, rowIndex, i + 1)

\* insert with the row appended before the columns are validated
insertPushFirst(table, row) ==
  LET checked == insertLoop(table, row, 1, EmptyMap)
      rowIndex == Len(table.rows)
  IN IF ~checked.success
     THEN [table |-> [table EXCEPT !.rows = Append(@, row)],
           ret |-> [success |-> FALSE, error |-> checked.error]]
     ELSE LET pushed == [table EXCEPT !.rows = Append(@, checked.newRow)]
          IN [table |-> insertIndex(pushed, checked.newRow, rowIndex, 1),
              ret |-> [success |-> TRUE]]

\* insert returns [table |-> the table afterwards, ret |-> the value returned]
insert(table, row) ==
  LET checked == insertLoop(table, row, 1, EmptyMap)
  IN IF ~checked.success
     THEN [table |-> table,
           ret |-> [success |-> FALSE, error |-> checked.error]]
     ELSE LET rowIndex == Len(table.rows)
              pushed == [table EXCEPT !.rows = Append(@, checked.newRow)]
          IN [table |-> insertIndex(pushed, checked.newRow, rowIndex, 1),
              ret |-> [success |-> TRUE]]

\* select (Table.ts 69-83): copies of the rows, projected on the columns
\* the row owns; an empty list or a leading * means every column.
select(table, columns) ==
  IF Len(columns) = 0 \/ columns[1] = "*" THEN table.rows
  ELSE [r \in 1..Len(table.rows) |->
          [c \in {columns[j] : j \in 1..Len(columns)} \cap DOMAIN table.rows[r]
             |-> table.rows[r][c]]]

\* ------------------------------------------------- characters and numbers
WS == {" ", "\n", "\t"}

Digits == <<"0", "1", "2", "3", "4", "5", "6", "7", "8", "9">>

IsDigit(c) == \E i \in 1..Len(Digits) : Digits[i] = c

DigitVal(c) == (CHOOSE i \in 1..Len(Digits) : Digits[i] = c) - 1

\* the characters of the model in code-unit order
CodeOrder ==
  <<"\t", "\n", " ", "!", "\"", "'", "(", ")", "*", ",", "-", ".",
    "0", "1", "2", "3", "4", "5", "6", "7", "8", "9", ";", "<", "=", ">",
    "A", "B", "C", "D", "E", "F", "G", "H", "I", "J", "K", "L", "M",
    "N", "O", "P", "Q", "R", "S", "T", "U", "V", "W", "X", "Y", "Z", "_",
    "a", "b", "c", "d", "e", "f", "g", "h", "i", "j", "k", "l", "m",
    "n", "o", "p", "q", "r", "s", "t", "u", "v", "w", "x", "y", "z">>

Code(c) == CHOOSE i \in 1..Len(CodeOrder) : CodeOrder[i] = c

\* the({e : x \in {v}}) is e with the constant x bound to the value of v,
\* which is computed once however often e uses x
the(S) == CHOOSE x \in S : TRUE

\* s.charAt(i - 1): the i-th character of s
charAt(s, i) == SubSeq(s, i, i)

\* String.prototype.trim
RECURSIVE trimStart(_)
trimStart(s) ==
  IF Len(s) > 0 /\ charAt(s, 1) \in WS THEN trimStart(Tail(s)) ELSE s

RECURSIVE trimEnd(_)
trimEnd(s) ==
  IF Len(s) > 0 /\ charAt(s, Len(s)) \in WS
  THEN trimEnd(SubSeq(s, 1, Len(s) - 1))
  ELSE s

trim(s) == trimEnd(trimStart(s))

RECURSIVE decimal(_)
decimal(s) ==
  IF Len(s) = 0 THEN 0
  ELSE 10 * decimal(SubSeq(s, 1, Len(s) - 1)) + DigitVal(charAt(s, Len(s)))

NaN == [nan |-> TRUE]

\* Number(string) for the literals of the model: blank is 0, a run of
\* digits is its decimal value, anything else is NaN (the model has no
\* signed, fractional, hexadecimal or exponent literals).
Number(s) ==
  LET t == trim(s)
  IN IF \A i \in 1..Len(t) : IsDigit(charAt(t, i)) THEN Num(decimal(t))
     ELSE NaN

\* ToNumber of a JavaScript value
ToNumber(v) ==
  CASE "num" \in DOMAIN v -> v
    [] "null" \in DOMAIN v -> Num(0)
    [] "bool" \in DOMAIN v -> IF v.bool THEN Num(1) ELSE Num(0)
    [] "str" \in DOMAIN v -> Number(v.str)
    [] OTHER -> NaN

RECURSIVE lexLess(_, _)
lexLess(a, b) ==
  IF Len(b) = 0 THEN FALSE
  ELSE IF Len(a) = 0 THEN TRUE
  ELSE IF Head(a) = Head(b) THEN lexLess(Tail(a), Tail(b))
  ELSE Code(Head(a)) < Code(Head(b))

\* a < b of JavaScript: two strings compare by code units, anything else
\* numerically, and a comparison with NaN is false.
jsLess(a, b) ==
  IF TypeOf(a) = "string" /\ TypeOf(b) = "string" THEN lexLess(a.str, b.str)
  ELSE LET x == ToNumber(a)
           y == ToNumber(b)
       IN x # NaN /\ y # NaN /\ x.num < y.num

\* a <= b of JavaScript: not (b < a), and false when either side is NaN
jsLessEq(a, b) ==
  IF TypeOf(a) = "string" /\ TypeOf(b) = "string" THEN ~lexLess(b.str, a.str)
  ELSE LET x == ToNumber(a)
           y == ToNumber(b)
       IN x # NaN /\ y # NaN /\ x.num <= y.num

\* --------------------------------------------------------- evaluateWhere
evaluateCondition(row, condition) ==
  LET rowValue == Get(row, condition.column)
      condValue == condition.value
  IN CASE condition.operator = "=" -> rowValue = condValue
       [] condition.operator = "!=" -> rowValue # condValue
       [] condition.operator = ">" -> jsLess(condValue, rowValue)
       [] condition.operator = "<" -> jsLess(rowValue, condValue)
       [] condition.operator = ">=" -> jsLessEq(condValue, rowValue)
       [] condition.operator = "<=" -> jsLessEq(rowValue, condValue)
       [] OTHER -> FALSE

evaluateWhere(row, conditions) ==
  \A k \in 1..Len(conditions) : evaluateCondition(row, conditions[k])

filterRows(rows, where) == SelectSeq(rows, LAMBDA row : evaluateWhere(row, where))

\* A predicate handed to Table.update / Table.delete is modelled by the
\* conditions it evaluates: [where |-> conditions] is
\* (row) => evaluateWhere(row, conditions) and [all |-> TRUE] is () => true.
predicate(p, row) ==
  IF "where" \in DOMAIN p THEN evaluateWhere(row, p.where) ELSE TRUE

\* ---------------------------------------------------------- Table.update
\* updateEntry without the check that the key is a column of the schema
updateEntryAnyKey(table, idx, key, value) ==
  IF value = Undefined THEN table
  ELSE [table EXCEPT !.rows[idx + 1] = Put(@, key, value)]

\* updateEntry without the type check of lines 97-99
updateEntryUntyped(table, idx, key, value) ==
  LET cols == table.schema.columns
      row == table.rows[idx + 1]
  IN IF ~\E j \in 1..Len(cols) : cols[j].name = key THEN table
     ELSE
       LET col == cols[CHOOSE j \in 1..Len(cols) : cols[j].name = key]
           v == value
       IN IF v = Undefined THEN table
          ELSE
            LET t2 == IF /\ isIndexed(col)
                         /\ v # Get(row, key)
                         /\ key \in DOMAIN table.indexes
                      THEN [table EXCEPT !.indexes[key] =
                              add(remove(@, Get(row, key), idx), v, idx)]
                      ELSE table
            IN [t2 EXCEPT !.rows[idx + 1] = Put(@, key, v)]

\* One (key, value) entry of the updates applied to the row at position
\* idx (Table.ts 91-109).
updateEntry(table, idx, key, value) ==
  LET cols == table.schema.columns
      row == table.rows[idx + 1]
  IN IF ~\E j \in 1..Len(cols) : cols[j].name = key THEN table
     ELSE
       LET col == cols[CHOOSE j \in 1..Len(cols) :
                         /\ cols[j].name = key
                         /\ \A k \in 1..(j - 1) : cols[k].name # key]
           v == value
       IN IF v = Undefined THEN table
          ELSE IF v # Null /\ ~validateType(v, col.type) THEN table
          ELSE
            LET t2 == IF /\ isIndexed(col)
                         /\ v # Get(row, key)
                         /\ key \in DOMAIN table.indexes
                      THEN [table EXCEPT !.indexes[key] =
                              add(remove(@, Get(row, key), idx), v, idx)]
                      ELSE table
            IN [t2 EXCEPT !.rows[idx + 1] = Put(@, key, v)]

\* for (const [key, value] of Object.entries(updates))
RECURSIVE updateEntries(_, _, _, _)
updateEntries(table, idx, updates, k) ==
  IF k > Len(updates) THEN table
  ELSE updateEntries(updateEntry(table, idx, updates[k].key, updates[k].value),
                     idx, updates, k + 1)

\* this.rows.forEach((row, idx) => ...), counting the rows that matched
RECURSIVE updateRows(_, _, _, _, _)
updateRows(table, updates, p, idx, updatedCount) ==
  IF idx >= Len(table.rows) THEN [table |-> table, ret |-> updatedCount]
  ELSE IF predicate(p, table.rows[idx + 1])
       THEN updateRows(updateEntries(table, idx, updates, 1), updates, p,
                       idx + 1, updatedCount + 1)
       ELSE updateRows(table, updates, p, idx + 1, updatedCount)

\* update returning the number of rows it changed
updateCountingChanges(table, updates, p) ==
  LET r == updateRows(table, updates, p, 0, 0)
  IN [table |-> r.table,
      ret |-> Cardinality({i \in 1..Len(table.rows) :
                             r.table.rows[i] # table.rows[i]})]

\* update returns [table |-> the table afterwards, ret |-> updatedCount]
update(table, updates, p) == updateRows(table, updates, p, 0, 0)

\* ---------------------------------------------------------- Table.delete
\* rebuildIndexes (Table.ts 166-179): clear every index, then add every
\* non-null indexed value of every row at its position.
RECURSIVE rebuildCols(_, _, _)
rebuildCols(table, idx, i) ==
  IF i > Len(table.schema.columns) THEN table
  ELSE
    LET col == table.schema.columns[i]
        row == table.rows[idx + 1]
        t2 == IF /\ isIndexed(col)
                 /\ col.name \in DOMAIN table.indexes
                 /\ row[col.name] # Null
              THEN [table EXCEPT !.indexes[col.name] =
                      add(@, row[col.name], idx)]
              ELSE table
    IN rebuildCols(t2, idx, i + 1)

RECURSIVE rebuildRows(_, _)
rebuildRows(table, idx) ==
  IF idx >= Len(table.rows) THEN table
  ELSE rebuildRows(rebuildCols(table, idx, 1), idx + 1)

rebuildIndexes(table) ==
  rebuildRows([table EXCEPT !.indexes =
                 [n \in DOMAIN table.indexes |-> clear(table.indexes[n])]], 0)

\* the positions of the rows that satisfy the predicate, ascending
toDelete(table, p) ==
  SelectSeq([i \in 1..Len(table.rows) |-> i - 1],
            LAMBDA idx : predicate(p, table.rows[idx + 1]))

\* removal of the row at position idx from every index (Table.ts 128-136)
RECURSIVE deleteFromIndexes(_, _, _)
deleteFromIndexes(table, idx, i) ==
  IF i > Len(table.schema.columns) THEN table
  ELSE
    LET col == table.schema.columns[i]
        row == table.rows[idx + 1]
        t2 == IF isIndexed(col) /\ col.name \in DOMAIN table.indexes
              THEN [table EXCEPT !.indexes[col.name] =
                      remove(@, row[col.name], idx)]
              ELSE table
    IN deleteFromIndexes(t2, idx, i + 1)

\* removal that moves the last row into the place of the row removed
spliceSwap(rows, idx) ==
  IF idx + 1 = Len(rows) THEN SubSeq(rows, 1, idx)
  ELSE [i \in 1..(Len(rows) - 1) |-> IF i = idx + 1 THEN rows[Len(rows)] ELSE rows[i]]

\* this.rows.splice(idx, 1)
splice(rows, idx) ==
  SubSeq(rows, 1, idx) \o SubSeq(rows, idx + 2, Len(rows))

\* toDelete.reverse().forEach(idx => ...): k runs from the last position
\* collected to the first
RECURSIVE deleteLoop(_, _, _)
deleteLoop(table, positions, k) ==
  IF k < 1 THEN table
  ELSE LET idx == positions[k]
           t2 == deleteFromIndexes(table, idx, 1)
       IN deleteLoop([t2 EXCEPT !.rows = splice(@, idx)], positions, k - 1)

\* delete without the final rebuildIndexes
deleteNoRebuild(table, p) ==
  LET positions == toDelete(table, p)
  IN [table |-> deleteLoop(table, positions, Len(positions)),
      ret |-> Len(positions)]

\* delete that stops after the first row it removes
deleteOne(table, p) ==
  LET positions == toDelete(table, p)
  IN [table |-> rebuildIndexes(deleteLoop(table, positions,
                                          IF Len(positions) > 0 THEN 1 ELSE 0)),
      ret |-> Len(positions)]

\* delete returns [table |-> the table afterwards, ret |-> toDelete.length]
delete(table, p) ==
  LET positions == toDelete(table, p)
  IN [table |-> rebuildIndexes(deleteLoop(table, positions, Len(positions))),
      ret |-> Len(positions)]

\* findByIndex (Table.ts 145-151): the rows at the positions of the index
findByIndex(table, columnName, value) ==
  IF columnName \notin DOMAIN table.indexes THEN <<>>
  ELSE LET rowIndexes == find(table.indexes[columnName], value)
       IN [k \in 1..Len(rowIndexes) |-> table.rows[rowIndexes[k] + 1]]

\* --------------------------------------------------------------- Database
\* The Database is its Map [tables |-> name -> Table, order |-> the keys in
\* insertion order].
\* createTable without the check of line 12: the new table takes the
\* place of the one that has the name
createTableReplacing(db, schema) ==
  LET primaryKeys == SelectSeq(schema.columns, LAMBDA col : col.primaryKey)
  IN IF Len(primaryKeys) > 1
     THEN [db |-> db,
           ret |-> [success |-> FALSE,
                    error |-> "Multiple primary keys not supported"]]
     ELSE LET resolved == IF Len(primaryKeys) = 1
                          THEN Put(schema, "primaryKey", primaryKeys[1].name)
                          ELSE schema
          IN [db |-> [tables |-> Put(db.tables, schema.name, Table(resolved)),
                      order |-> IF schema.name \in DOMAIN db.tables
                                THEN db.order
                                ELSE Append(db.order, schema.name)],
              ret |-> [success |-> TRUE]]

createTable(db, schema) ==
  LET primaryKeys == SelectSeq(schema.columns, LAMBDA col : col.primaryKey)
  IN IF schema.name \in DOMAIN db.tables
     THEN [db |-> db,
           ret |-> [success |-> FALSE,
                    error |-> "Table " \o schema.name \o " already exists"]]
     ELSE IF Len(primaryKeys) > 1
     THEN [db |-> db,
           ret |-> [success |-> FALSE,
                    error |-> "Multiple primary keys not supported"]]
     ELSE LET resolved == IF Len(primaryKeys) = 1
                          THEN Put(schema, "primaryKey", primaryKeys[1].name)
                          ELSE schema
          IN [db |-> [tables |-> Put(db.tables, schema.name, Table(resolved)),
                      order |-> Append(db.order, schema.name)],
              ret |-> [success |-> TRUE]]

\* dropTable in the manner of DROP TABLE IF EXISTS: a missing table is no
\* error
dropTableIfExists(db, tableName) ==
  IF tableName \notin DOMAIN db.tables
  THEN [db |-> db, ret |-> [success |-> TRUE]]
  ELSE [db |-> [tables |-> Del(db.tables, tableName),
                order |-> SelectSeq(db.order, LAMBDA n : n # tableName)],
        ret |-> [success |-> TRUE]]

\* dropTable that leaves the name among the keys of the Map
dropTableKeepName(db, tableName) ==
  IF tableName \notin DOMAIN db.tables
  THEN [db |-> db,
        ret |-> [success |-> FALSE,
                 error |-> "Table " \o tableName \o " does not exist"]]
  ELSE [db |-> [tables |-> Del(db.tables, tableName), order |-> db.order],
        ret |-> [success |-> TRUE]]

\* dropTable that empties the table in place of removing it
dropTableRowsOnly(db, tableName) ==
  IF tableName \notin DOMAIN db.tables
  THEN [db |-> db,
        ret |-> [success |-> FALSE,
                 error |-> "Table " \o tableName \o " does not exist"]]
  ELSE [db |-> [tables |-> [db.tables EXCEPT ![tableName].rows = <<>>],
                order |-> db.order],
        ret |-> [success |-> TRUE]]

dropTable(db, tableName) ==
  IF tableName \notin DOMAIN db.tables
  THEN [db |-> db,
        ret |-> [success |-> FALSE,
                 error |-> "Table " \o tableName \o " does not exist"]]
  ELSE [db |-> [tables |-> Del(db.tables, tableName),
                order |-> SelectSeq(db.order, LAMBDA n : n # tableName)],
        ret |-> [success |-> TRUE]]

\* ------------------------------------------------------------- the inputs
ColId ==
  [name |-> "id", type |-> "number",
   primaryKey |-> TRUE, unique |-> FALSE, nullable |-> FALSE]

ColNameNotNull ==
  [name |-> "name", type |-> "string",
   primaryKey |-> FALSE, unique |-> FALSE, nullable |-> FALSE]

ColNameUnique ==
  [name |-> "name", type |-> "string",
   primaryKey |-> FALSE, unique |-> TRUE, nullable |-> TRUE]

\* the schemas handed to Database.createTable
Schemas ==
  {[name |-> "t", columns |-> <<ColId, ColNameNotNull>>],
   [name |-> "t", columns |-> <<ColId, ColNameUnique>>],
   [name |-> "t", columns |-> <<ColNameUnique>>],
   [name |-> "t",
    columns |-> <<ColId, [ColNameNotNull EXCEPT !.primaryKey = TRUE]>>]}

TableNames == {"t"}

\* a Partial<Row> with the keys whose value is not undefined
PartialRow(id, name, zz) ==
  [k \in {kk \in {"id", "name", "zz"} :
            \/ kk = "id" /\ id # Undefined
            \/ kk = "name" /\ name # Undefined
            \/ kk = "zz" /\ zz # Undefined}
     |-> CASE k = "id" -> id [] k = "name" -> name [] OTHER -> zz]

InsertRows ==
  {PartialRow(id, name, zz) :
     id \in {Undefined, Num(1), Num(2)},
     name \in {Undefined, Null, Str("a"), Str("b"), Num(1)},
     zz \in {Undefined, Num(1)}}

Entry(k, v) == [key |-> k, value |-> v]

\* the updates handed to Table.update, as Object.entries lists them
UpdateSets ==
  {<<Entry("id", Num(1))>>,
   <<Entry("id", Num(2))>>,
   <<Entry("id", Null)>>,
   <<Entry("name", Str("a"))>>,
   <<Entry("name", Null)>>,
   <<Entry("name", Num(1))>>,
   <<Entry("name", Num(1)), Entry("id", Num(2))>>,
   <<Entry("zz", Num(1)), Entry("name", Str("b"))>>}

Cond(c, op, v) == [column |-> c, operator |-> op, value |-> v]

Predicates ==
  {[all |-> TRUE],
   [where |-> <<Cond("id", "=", Num(1))>>],
   [where |-> <<Cond("name", "!=", Str("a"))>>]}

\* ------------------------------------------- the calls on Database / Table
database == [tables |-> tables, order |-> tableOrder]

Init ==
  /\ tables = EmptyMap
  /\ tableOrder = <<>>
  /\ call = [op |-> "new"]
  /\ result = Undefined
  /\ history = <<>>

CreateTable(schema) ==
  LET r == createTable(database, schema)
  IN /\ tables' = r.db.tables
     /\ tableOrder' = r.db.order
     /\ call' = [op |-> "createTable", schema |-> schema]
     /\ result' = r.ret
     /\ UNCHANGED history

DropTable(t) ==
  LET r == dropTable(database, t)
  IN /\ tables' = r.db.tables
     /\ tableOrder' = r.db.order
     /\ call' = [op |-> "dropTable", table |-> t]
     /\ result' = r.ret
     /\ UNCHANGED history

Insert(t, row) ==
  /\ t \in DOMAIN tables
  /\ Len(tables[t].rows) < MaxRows
  /\ LET r == insert(tables[t], row)
     IN /\ tables' = [tables EXCEPT ![t] = r.table]
        /\ UNCHANGED <<tableOrder, history>>
        /\ call' = [op |-> "insert", table |-> t, row |-> row]
        /\ result' = r.ret

Update(t, updates, p) ==
  /\ t \in DOMAIN tables
  /\ LET r == update(tables[t], updates, p)
     IN /\ tables' = [tables EXCEPT ![t] = r.table]
        /\ UNCHANGED <<tableOrder, history>>
        /\ call' = [op |-> "update", table |-> t, updates |-> updates,
                    predicate |-> p]
        /\ result' = r.ret

Delete(t, p) ==
  /\ t \in DOMAIN tables
  /\ LET r == delete(tables[t], p)
     IN /\ tables' = [tables EXCEPT ![t] = r.table]
        /\ UNCHANGED <<tableOrder, history>>
        /\ call' = [op |-> "delete", table |-> t, predicate |-> p,
                    positions |-> toDelete(tables[t], p)]
        /\ result' = r.ret

NextTable ==
  \/ \E schema \in Schemas : CreateTable(schema)
  \/ \E t \in TableNames : DropTable(t)
  \/ \E t \in TableNames, row \in InsertRows : Insert(t, row)
  \/ \E t \in TableNames, updates \in UpdateSets, p \in Predicates :
       Update(t, updates, p)
  \/ \E t \in TableNames, p \in Predicates : Delete(t, p)

SpecTable == Init /\ [][NextTable]_vars

\* ===================================================== claims on the Table
columnNames(table) ==
  {table.schema.columns[j].name : j \in 1..Len(table.schema.columns)}

indexedColumns(table) ==
  {table.schema.columns[j].name :
     j \in {k \in 1..Len(table.schema.columns) :
              isIndexed(table.schema.columns[k])}}

nonNullableColumns(table) ==
  {table.schema.columns[j].name :
     j \in {k \in 1..Len(table.schema.columns) :
              ~table.schema.columns[k].nullable}}

primaryKeyColumns(table) ==
  {table.schema.columns[j].name :
     j \in {k \in 1..Len(table.schema.columns) :
              table.schema.columns[k].primaryKey}}

\* C1: in every table, no two rows hold the same non-null value in a
\* primary-key or unique column.
C1_Uniqueness ==
  \A t \in DOMAIN tables :
    \A c \in indexedColumns(tables[t]) :
      \A i, j \in 1..Len(tables[t].rows) :
        (i # j /\ tables[t].rows[i][c] = tables[t].rows[j][c])
          => tables[t].rows[i][c] = Null

\* the positions a full scan of column c finds for value v
scanPositions(table, c, v) ==
  {i - 1 : i \in {k \in 1..Len(table.rows) : table.rows[k][c] = v}}

seqRange(s) == {s[k] : k \in 1..Len(s)}

occurrences(s, x) == Cardinality({k \in 1..Len(s) : s[k] = x})

\* the non-null values column c holds or its index has as a key
valuesOf(table, c) ==
  ({table.rows[k][c] : k \in 1..Len(table.rows)} \cup DOMAIN table.indexes[c])
    \ {Null}

\* C2: for every primary-key or unique column c and every non-null value v,
\* the index of c stores under v exactly the positions of the rows whose c
\* is v, each once, so findByIndex(c, v) returns the rows of a full scan.
C2_IndexScanEquivalence ==
  \A t \in DOMAIN tables :
    \A c \in indexedColumns(tables[t]) :
      /\ c \in DOMAIN tables[t].indexes
      /\ Null \notin DOMAIN tables[t].indexes[c]
      /\ \A v \in valuesOf(tables[t], c) :
           LET positions == find(tables[t].indexes[c], v)
               found == findByIndex(tables[t], c, v)
               scanned == SelectSeq(tables[t].rows, LAMBDA row : row[c] = v)
           IN /\ seqRange(positions) = scanPositions(tables[t], c, v)
              /\ Len(positions) = Cardinality(scanPositions(tables[t], c, v))
              /\ Len(found) = Len(scanned)
              /\ \A row \in seqRange(found) \cup seqRange(scanned) :
                   occurrences(found, row) = occurrences(scanned, row)

\* C2 witness: a delete removed a row in front of a surviving row, which
\* moved to a lower position and is found through its index.
C2_Witness ==
  /\ call.op = "delete"
  /\ result >= 1
  /\ \E k \in 1..Len(call.positions) :
       call.positions[k] < Len(tables[call.table].rows)
  /\ \E c \in indexedColumns(tables[call.table]) :
       \E v \in DOMAIN tables[call.table].indexes[c] :
         Len(findByIndex(tables[call.table], c, v)) >= 1

\* C3: an insert that returns success=false leaves the rows and the indexes
\* of every table as they were.
C3_FailedInsertChangesNothing ==
  [][(call'.op = "insert" /\ ~result'.success) => tables' = tables]_vars

\* C3 witness: an insert into a non-empty table failed on its second
\* column after its first column had passed every check.
C3_Witness ==
  /\ call.op = "insert"
  /\ ~result.success
  /\ result.error = "Duplicate value for unique column name"
  /\ Len(tables[call.table].rows) >= 1

\* C4: an insert that supplies no value, or null, for the primary-key
\* column is rejected.
C4_NullPrimaryKeyRejected ==
  [][(/\ call'.op = "insert"
      /\ \E c \in primaryKeyColumns(tables[call'.table]) :
           Get(call'.row, c) \in {Undefined, Null})
       => ~result'.success]_vars

\* C5: an update does not assign null to a column that is not nullable.
C5_UpdateKeepsNotNull ==
  [][call'.op = "update" =>
       \A c \in nonNullableColumns(tables[call'.table]) :
         \A i \in 1..Len(tables[call'.table].rows) :
           tables'[call'.table].rows[i][c] = Null
             => tables[call'.table].rows[i][c] = Null]_vars

\* C6: every stored row has exactly the column names of its table's schema.
C6_RowShape ==
  \A t \in DOMAIN tables :
    \A i \in 1..Len(tables[t].rows) :
      DOMAIN tables[t].rows[i] = columnNames(tables[t])

\* C6 witness: an insert that supplied a key outside the schema and left a
\* schema column out has stored its row.
C6_Witness ==
  /\ call.op = "insert"
  /\ result.success
  /\ "zz" \in DOMAIN call.row
  /\ "name" \notin DOMAIN call.row
  /\ Len(tables[call.table].rows) >= 1

\* ------------------------------------------------------------ strings
LowerLetters ==
  <<"a", "b", "c", "d", "e", "f", "g", "h", "i", "j", "k", "l", "m",
    "n", "o", "p", "q", "r", "s", "t", "u", "v", "w", "x", "y", "z">>

UpperLetters ==
  <<"A", "B", "C", "D", "E", "F", "G", "H", "I", "J", "K", "L", "M",
    "N", "O", "P", "Q", "R", "S", "T", "U", "V", "W", "X", "Y", "Z">>

upperChar(c) ==
  IF \E i \in 1..26 : LowerLetters[i] = c
  THEN UpperLetters[CHOOSE i \in 1..26 : LowerLetters[i] = c]
  ELSE c

lowerChar(c) ==
  IF \E i \in 1..26 : UpperLetters[i] = c
  THEN LowerLetters[CHOOSE i \in 1..26 : UpperLetters[i] = c]
  ELSE c

RECURSIVE toUpperCase(_)
toUpperCase(s) ==
  IF Len(s) = 0 THEN "" ELSE upperChar(Head(s)) \o toUpperCase(Tail(s))

RECURSIVE toLowerCase(_)
toLowerCase(s) ==
  IF Len(s) = 0 THEN "" ELSE lowerChar(Head(s)) \o toLowerCase(Tail(s))

\* the characters \w matches
IsWordChar(c) ==
  \/ \E i \in 1..26 : LowerLetters[i] = c \/ UpperLetters[i] = c
  \/ IsDigit(c)
  \/ c = "_"

startsWith(s, prefix) ==
  Len(s) >= Len(prefix) /\ SubSeq(s, 1, Len(prefix)) = prefix

endsWith(s, suffix) ==
  Len(s) >= Len(suffix) /\ SubSeq(s, Len(s) - Len(suffix) + 1, Len(s)) = suffix

includes(s, part) ==
  \E i \in 1..(Len(s) - Len(part) + 1) : SubSeq(s, i, i + Len(part) - 1) = part

\* ------------------------------------------------ regular expressions
\* A pattern is a tree of the nodes below (the patterns of the parser repeat
\* only character classes).  Matching a node at a position
\* yields the sequence of every way it can match, in the order in which a
\* backtracking matcher tries them, so the first element of the result for
\* the whole pattern is the match JavaScript reports.
Lit(s) == [k |-> "lit", s |-> s]
Class(c) == [k |-> "class", c |-> c]
Star(c) == [k |-> "star", c |-> c, lazy |-> FALSE]
LazyStar(c) == [k |-> "star", c |-> c, lazy |-> TRUE]
Opt(r) == [k |-> "opt", r |-> r]
Cap(n, r) == [k |-> "cap", n |-> n, r |-> r]
Alt(rs) == [k |-> "alt", rs |-> rs]
Cat(rs) == [k |-> "cat", rs |-> rs]
AtEnd == [k |-> "end"]
AtStart == [k |-> "start"]
Plus(c) == Cat(<<Class(c), Star(c)>>)
LazyPlus(c) == Cat(<<Class(c), LazyStar(c)>>)

inClass(c, ch) ==
  CASE c = "w" -> IsWordChar(ch)
    [] c = "s" -> ch \in WS
    [] c = "." -> ch # "\n"
    [] OTHER -> TRUE

RECURSIVE matchNode(_, _, _, _)
RECURSIVE matchAll(_, _, _, _, _)
RECURSIVE matchCat(_, _, _, _, _)
RECURSIVE matchAlt(_, _, _, _, _)

\* every match of node r from every state of sts, in order
matchAll(r, text, ci, sts, i) ==
  IF i > Len(sts) THEN <<>>
  ELSE matchNode(r, text, ci, sts[i]) \o matchAll(r, text, ci, sts, i + 1)

matchCat(rs, text, ci, sts, i) ==
  IF i > Len(rs) THEN sts
  ELSE the({matchCat(rs, text, ci, next, i + 1) :
                         next \in {matchAll(rs[i], text, ci, sts, 1)}})

matchAlt(rs, text, ci, st, i) ==
  IF i > Len(rs) THEN <<>>
  ELSE matchNode(rs[i], text, ci, st) \o matchAlt(rs, text, ci, st, i + 1)

\* st is [pos |-> next position to read, caps |-> the groups captured]
matchNode(r, text, ci, st) ==
  CASE r.k = "lit" ->
         LET n == Len(r.s)
             part == SubSeq(text, st.pos, st.pos + n - 1)
         IN IF /\ st.pos + n - 1 <= Len(text)
               /\ IF ci THEN toUpperCase(part) = toUpperCase(r.s)
                  ELSE part = r.s
            THEN <<[st EXCEPT !.pos = st.pos + n]>>
            ELSE <<>>
    [] r.k = "class" ->
         IF st.pos <= Len(text) /\ inClass(r.c, charAt(text, st.pos))
         THEN <<[st EXCEPT !.pos = st.pos + 1]>>
         ELSE <<>>
    [] r.k = "star" ->
         \* a class repeated: the run of class characters at pos can be
         \* taken up to any length, longest first (shortest first if lazy)
         the(
           {[j \in 1..(run + 1) |->
               [st EXCEPT !.pos = IF r.lazy THEN st.pos + j - 1
                                  ELSE st.pos + run + 1 - j]] :
            run \in {CHOOSE n \in 0..(Len(text) - st.pos + 1) :
                       /\ \A i \in 0..(n - 1) :
                            inClass(r.c, charAt(text, st.pos + i))
                       /\ \/ st.pos + n > Len(text)
                          \/ ~inClass(r.c, charAt(text, st.pos + n))}})
    [] r.k = "opt" -> matchNode(r.r, text, ci, st) \o <<st>>
    [] r.k = "cap" ->
         the(
           {[j \in 1..Len(inner) |->
               [inner[j] EXCEPT !.caps =
                  Put(@, r.n, SubSeq(text, st.pos, inner[j].pos - 1))]] :
            inner \in {matchNode(r.r, text, ci, st)}})
    [] r.k = "alt" -> matchAlt(r.rs, text, ci, st, 1)
    [] r.k = "cat" -> matchCat(r.rs, text, ci, <<st>>, 1)
    [] r.k = "end" -> IF st.pos = Len(text) + 1 THEN <<st>> ELSE <<>>
    [] r.k = "start" -> IF st.pos = 1 THEN <<st>> ELSE <<>>

\* the matches of r that start at position from
matchAt(r, text, ci, from) ==
  matchNode(r, text, ci, [pos |-> from, caps |-> EmptyMap])

\* String.prototype.match / RegExp.exec from position from on: the match
\* at the leftmost position that has one, as [found, index, end, caps]
\* (index and end delimit the matched text, caps[n] is group n, absent when
\* the group took no part), or [found |-> FALSE].
execFrom(r, text, ci, from) ==
  the(
    {IF \A p \in DOMAIN ms : Len(ms[p]) = 0 THEN [found |-> FALSE]
     ELSE LET p == CHOOSE q \in DOMAIN ms :
                     /\ Len(ms[q]) > 0
                     /\ \A q2 \in from..(q - 1) : Len(ms[q2]) = 0
          IN [found |-> TRUE, index |-> p,
              end |-> ms[p][1].pos, caps |-> ms[p][1].caps] :
     ms \in {[p \in from..(Len(text) + 1) |-> matchAt(r, text, ci, p)]}})

exec(r, text, ci) == execFrom(r, text, ci, 1)

test(r, text, ci) == exec(r, text, ci).found

\* String.prototype.split with a pattern that never matches the empty
\* string: the pieces between successive matches
RECURSIVE splitFrom(_, _, _, _)
splitFrom(r, text, ci, from) ==
  the(
    {IF ~m.found \/ m.index > Len(text)
     THEN <<SubSeq(text, from, Len(text))>>
     ELSE <<SubSeq(text, from, m.index - 1)>> \o splitFrom(r, text, ci, m.end) :
     m \in {execFrom(r, text, ci, from)}})

split(r, text, ci) == splitFrom(r, text, ci, 1)

\* ------------------------------------------------------------ QueryParser
\* A parse function returns Ok(value) or, when the code throws, Throw(msg).
Ok(v) == [threw |-> FALSE, value |-> v]
Throw(msg) == [threw |-> TRUE, error |-> msg]

S1 == Plus("s")
S0 == Star("s")
W1 == Plus("w")

\* parseValue (QueryParser.ts 251-268): a literal of the statement
parseValue(raw) ==
  the({IF toLowerCase(value) = "true" THEN Bool(TRUE)
       ELSE IF toLowerCase(value) = "false" THEN Bool(FALSE)
       ELSE IF startsWith(value, "'") /\ endsWith(value, "'")
       THEN Str(SubSeq(value, 2, Len(value) - 1))
       ELSE IF startsWith(value, "\"") /\ endsWith(value, "\"")
       THEN Str(SubSeq(value, 2, Len(value) - 1))
       ELSE the({IF n # NaN THEN n ELSE Str(value) : n \in {Number(value)}}) :
       value \in {trim(raw)}})

\* parseValues (QueryParser.ts 247-249)
parseValues(valuesStr) ==
  the({[i \in 1..Len(vs) |-> parseValue(trim(vs[i]))] :
       vs \in {split(Lit(","), valuesStr, FALSE)}})

\* /(\w+)\s*(=|!=|>|<|>=|<=)\s*(.+)/
reCondition ==
  Cat(<<Cap(1, W1), S0,
        Cap(2, Alt(<<Lit("="), Lit("!="), Lit(">"), Lit("<"),
                     Lit(">="), Lit("<=")>>)),
        S0, Cap(3, Plus("."))>>)

\* /\s+AND\s+/i
reAnd == Cat(<<S1, Lit("AND"), S1>>)

\* one condition of parseWhere (QueryParser.ts 235-244)
parseCondition(condition) ==
  the({IF ~match.found
       THEN Throw("Invalid WHERE condition: " \o condition)
       ELSE Ok([column |-> match.caps[1],
                operator |-> match.caps[2],
                value |-> parseValue(match.caps[3])]) :
       match \in {exec(reCondition, condition, FALSE)}})

\* parseWhere (QueryParser.ts 233-245): the first condition that does not
\* match throws
parseWhere(whereClause) ==
  the({LET bad == {i \in 1..Len(parsed) : parsed[i].threw}
       IN IF bad # {}
          THEN parsed[CHOOSE i \in bad : \A j \in bad : i <= j]
          ELSE Ok([i \in 1..Len(parsed) |-> parsed[i].value]) :
       parsed \in {the({[i \in 1..Len(conditions) |->
                           parseCondition(conditions[i])] :
                        conditions \in {split(reAnd, whereClause, TRUE)}})}})

\* /CREATE TABLE\s+(\w+)\s*\(([\s\S]*)\)/i
reCreateTable ==
  Cat(<<Lit("CREATE TABLE"), S1, Cap(1, W1), S0, Lit("("),
        Cap(2, Star("any")), Lit(")")>>)

\* the patterns that map a type token to a ColumnType
reVarchar == Cat(<<AtStart, Lit("varchar(")>>)
reChar == Cat(<<AtStart, Lit("char(")>>)
reTimestamp == Cat(<<AtStart, Lit("timestamp")>>)
reSerial == Cat(<<AtStart, Lit("serial")>>)
reInt == Cat(<<AtStart, Lit("int"), Opt(Lit("er")), AtEnd>>)
reNumber == Cat(<<AtStart, Lit("number"), AtEnd>>)
reBigint == Cat(<<AtStart, Lit("bigint")>>)
reBool == Cat(<<AtStart, Lit("bool"), Opt(Lit("ean")), AtEnd>>)

\* the type mapping of parseCreateTable (QueryParser.ts 105-116)
columnType(rawType) ==
  IF \/ test(reVarchar, rawType, TRUE)
     \/ test(reChar, rawType, TRUE)
     \/ rawType = "text"
     \/ test(reTimestamp, rawType, TRUE)
  THEN "string"
  ELSE IF \/ test(reSerial, rawType, TRUE)
          \/ test(reInt, rawType, TRUE)
          \/ test(reNumber, rawType, TRUE)
          \/ test(reBigint, rawType, TRUE)
  THEN "number"
  ELSE IF test(reBool, rawType, TRUE) THEN "boolean"
  ELSE "string"

\* parseColumn leaving a PRIMARY KEY column nullable
parseColumnKeyNullable(def) ==
  the({LET name == parts[1]
           rawType == IF Len(parts) >= 2 /\ Len(parts[2]) > 0
                      THEN toLowerCase(parts[2]) ELSE "string"
           isPrimary == includes(upperDef, "PRIMARY KEY")
       IN [name |-> name,
           type |-> columnType(rawType),
           primaryKey |-> isPrimary,
           unique |-> includes(upperDef, "UNIQUE"),
           nullable |-> ~includes(upperDef, "NOT NULL")] :
       parts \in {split(S1, def, FALSE)}, upperDef \in {toUpperCase(def)}})

\* one column definition of parseCreateTable (QueryParser.ts 99-137)
parseColumn(def) ==
  the({LET name == parts[1]
           rawType == IF Len(parts) >= 2 /\ Len(parts[2]) > 0
                      THEN toLowerCase(parts[2]) ELSE "string"
           isPrimary == includes(upperDef, "PRIMARY KEY")
       IN [name |-> name,
           type |-> columnType(rawType),
           primaryKey |-> isPrimary,
           unique |-> includes(upperDef, "UNIQUE"),
           nullable |-> ~isPrimary /\ ~includes(upperDef, "NOT NULL")] :
       parts \in {split(S1, def, FALSE)}, upperDef \in {toUpperCase(def)}})

parseCreateTable(sql) ==
  the({IF ~match.found THEN Throw("Invalid CREATE TABLE syntax")
       ELSE
         the({Ok([type |-> "CREATE_TABLE",
                  tableName |-> match.caps[1],
                  columns |-> [i \in 1..Len(columnDefs) |->
                                 parseColumn(columnDefs[i])]]) :
              columnDefs \in
                {the({SelectSeq([i \in 1..Len(pieces) |-> trim(pieces[i])],
                                LAMBDA def : Len(def) > 0) :
                      pieces \in {split(Lit(","), match.caps[2], FALSE)}})}}) :
       match \in {exec(reCreateTable, sql, TRUE)}})

\* /DROP TABLE\s+(\w+)/i
reDropTable == Cat(<<Lit("DROP TABLE"), S1, Cap(1, W1)>>)

parseDropTable(sql) ==
  the({IF ~match.found THEN Throw("Invalid DROP TABLE syntax")
       ELSE Ok([type |-> "DROP_TABLE", tableName |-> match.caps[1]]) :
       match \in {exec(reDropTable, sql, TRUE)}})

\* /INSERT INTO\s+(\w+)\s*(?:\((.*?)\))?\s*VALUES\s*\((.*?)\)/i
reInsert ==
  Cat(<<Lit("INSERT INTO"), S1, Cap(1, W1), S0,
        Opt(Cat(<<Lit("("), Cap(2, LazyStar(".")), Lit(")")>>)),
        S0, Lit("VALUES"), S0,
        Lit("("), Cap(3, LazyStar(".")), Lit(")")>>)

\* parseInsert: columns is absent from the query when the statement has no
\* column list (or an empty one)
parseInsert(sql) ==
  the({IF ~match.found THEN Throw("Invalid INSERT syntax")
       ELSE
         LET q == [type |-> "INSERT",
                   tableName |-> match.caps[1],
                   values |-> parseValues(match.caps[3])]
         IN IF 2 \in DOMAIN match.caps /\ Len(match.caps[2]) > 0
            THEN the({Ok(Put(q, "columns",
                             [i \in 1..Len(cs) |-> trim(cs[i])])) :
                      cs \in {split(Lit(","), match.caps[2], FALSE)}})
            ELSE Ok(q) :
       match \in {exec(reInsert, sql, TRUE)}})

\* /SELECT\s+(.*?)\s+FROM\s+(\w+)(.*)/i
reSelect ==
  Cat(<<Lit("SELECT"), S1, Cap(1, LazyStar(".")), S1,
        Lit("FROM"), S1, Cap(2, W1), Cap(3, Star("."))>>)

\* /(?:INNER|LEFT)\s+JOIN\s+(\w+)\s+ON\s+(\w+)\.(\w+)\s*=\s*(\w+)\.(\w+)/i
reJoin ==
  Cat(<<Alt(<<Lit("INNER"), Lit("LEFT")>>), S1, Lit("JOIN"), S1,
        Cap(1, W1), S1, Lit("ON"), S1,
        Cap(2, W1), Lit("."), Cap(3, W1), S0, Lit("="), S0,
        Cap(4, W1), Lit("."), Cap(5, W1)>>)

\* /WHERE\s+(.+?)(?:ORDER BY|GROUP BY|$)/i
reWhere ==
  Cat(<<Lit("WHERE"), S1, Cap(1, LazyPlus(".")),
        Alt(<<Lit("ORDER BY"), Lit("GROUP BY"), AtEnd>>)>>)

\* parseSelect: where and join are absent from the query when the statement
\* has no such clause
parseSelect(sql) ==
  the({IF ~selectMatch.found THEN Throw("Invalid SELECT syntax")
       ELSE
         the({the({LET columns == IF columnsStr = "*" THEN <<"*">>
                                  ELSE [i \in 1..Len(cs) |-> trim(cs[i])]
                       from == selectMatch.caps[2]
                       q0 == [type |-> "SELECT", columns |-> columns,
                              from |-> from]
                       q1 == IF joinMatch.found
                             THEN Put(q0, "join",
                                      [type |-> IF includes(toUpperCase(rest), "LEFT")
                                                THEN "LEFT" ELSE "INNER",
                                       table |-> joinMatch.caps[1],
                                       on |-> [leftColumn |->
                                                 joinMatch.caps[2] \o "."
                                                   \o joinMatch.caps[3],
                                               rightColumn |->
                                                 joinMatch.caps[4] \o "."
                                                   \o joinMatch.caps[5]]])
                             ELSE q0
                   IN IF ~whereMatch.found THEN Ok(q1)
                      ELSE the({IF where.threw THEN where
                                ELSE Ok(Put(q1, "where", where.value)) :
                                where \in {parseWhere(whereMatch.caps[1])}}) :
                   cs \in {split(Lit(","), columnsStr, FALSE)},
                   joinMatch \in {exec(reJoin, rest, TRUE)},
                   whereMatch \in {exec(reWhere, rest, TRUE)}}) :
              columnsStr \in {trim(selectMatch.caps[1])},
              rest \in {trim(selectMatch.caps[3])}}) :
       selectMatch \in {exec(reSelect, sql, TRUE)}})

\* /UPDATE\s+(\w+)\s+SET\s+(.*?)(?:\s+WHERE\s+(.+))?$/i
reUpdate ==
  Cat(<<Lit("UPDATE"), S1, Cap(1, W1), S1, Lit("SET"), S1,
        Cap(2, LazyStar(".")),
        Opt(Cat(<<S1, Lit("WHERE"), S1, Cap(3, Plus("."))>>)),
        AtEnd>>)

\* set[key] = value on the object set, kept as its entries in key order
setEntry(set, key, value) ==
  IF \E i \in 1..Len(set) : set[i].key = key
  THEN [i \in 1..Len(set) |->
          IF set[i].key = key THEN [key |-> key, value |-> value] ELSE set[i]]
  ELSE Append(set, [key |-> key, value |-> value])

\* the SET pairs of parseUpdate (QueryParser.ts 204-207); a pair without
\* '=' hands undefined to parseValue, whose value.trim() throws
RECURSIVE parseSet(_, _, _)
parseSet(pairs, i, set) ==
  IF i > Len(pairs) THEN Ok(set)
  ELSE the({IF Len(kv) < 2
            THEN Throw("Cannot read properties of undefined (reading 'trim')")
            ELSE the({parseSet(pairs, i + 1, next) :
                      next \in {setEntry(set, trim(kv[1]),
                                         parseValue(trim(kv[2])))}}) :
            kv \in {split(Lit("="), pairs[i], FALSE)}})

parseUpdate(sql) ==
  the({IF ~match.found THEN Throw("Invalid UPDATE syntax")
       ELSE
         the({LET q == [type |-> "UPDATE", tableName |-> match.caps[1]]
              IN IF set.threw THEN set
                 ELSE IF 3 \in DOMAIN match.caps /\ Len(match.caps[3]) > 0
                 THEN the({IF where.threw THEN where
                           ELSE Ok(Put(Put(q, "set", set.value),
                                       "where", where.value)) :
                           where \in {parseWhere(match.caps[3])}})
                 ELSE Ok(Put(q, "set", set.value)) :
              set \in {the({parseSet(pairs, 1, <<>>) :
                            pairs \in {split(Lit(","), match.caps[2], FALSE)}})}}) :
       match \in {exec(reUpdate, sql, TRUE)}})

\* /DELETE FROM\s+(\w+)(?:\s+WHERE\s+(.+))?$/i
reDelete ==
  Cat(<<Lit("DELETE FROM"), S1, Cap(1, W1),
        Opt(Cat(<<S1, Lit("WHERE"), S1, Cap(2, Plus("."))>>)),
        AtEnd>>)

parseDelete(sql) ==
  the({IF ~match.found THEN Throw("Invalid DELETE syntax")
       ELSE
         LET q == [type |-> "DELETE", from |-> match.caps[1]]
         IN IF 2 \in DOMAIN match.caps /\ Len(match.caps[2]) > 0
            THEN the({IF where.threw THEN where
                      ELSE Ok(Put(q, "where", where.value)) :
                      where \in {parseWhere(match.caps[2])}})
            ELSE Ok(q) :
       match \in {exec(reDelete, sql, TRUE)}})

\* /(?:DESCRIBE|DESC)\s+(\w+)/i
reDescribe ==
  Cat(<<Alt(<<Lit("DESCRIBE"), Lit("DESC")>>), S1, Cap(1, W1)>>)

parseDescribe(sql) ==
  the({IF ~match.found THEN Throw("Invalid DESCRIBE syntax")
       ELSE Ok([type |-> "DESCRIBE", tableName |-> match.caps[1]]) :
       match \in {exec(reDescribe, sql, TRUE)}})

\* sql.trim().replace(/;$/, '')
stripSemicolon(s) ==
  IF Len(s) > 0 /\ charAt(s, Len(s)) = ";" THEN SubSeq(s, 1, Len(s) - 1) ELSE s

\* parse (QueryParser.ts 62-85)
parse(sql) ==
  the({the({IF startsWith(upperSQL, "CREATE TABLE") THEN parseCreateTable(trimmed)
            ELSE IF startsWith(upperSQL, "DROP TABLE") THEN parseDropTable(trimmed)
            ELSE IF startsWith(upperSQL, "INSERT INTO") THEN parseInsert(trimmed)
            ELSE IF startsWith(upperSQL, "SELECT") THEN parseSelect(trimmed)
            ELSE IF startsWith(upperSQL, "UPDATE") THEN parseUpdate(trimmed)
            ELSE IF startsWith(upperSQL, "DELETE FROM") THEN parseDelete(trimmed)
            ELSE IF upperSQL = "SHOW TABLES" THEN Ok([type |-> "SHOW_TABLES"])
            ELSE IF \/ startsWith(upperSQL, "DESCRIBE")
                    \/ startsWith(upperSQL, "DESC")
            THEN parseDescribe(trimmed)
            ELSE Throw("Unsupported query: " \o sql) :
            upperSQL \in {toUpperCase(trimmed)}}) :
       trimmed \in {stripSemicolon(trim(sql))}})

\* ---------------------------------------------------------- QueryExecutor
\* An execute function returns [db |-> the Database afterwards,
\* ret |-> the QueryResult], a QueryResult having only the keys the code
\* sets.
executeCreateTable(db, query) ==
  LET r == createTable(db, [name |-> query.tableName, columns |-> query.columns])
  IN IF r.ret.success
     THEN [db |-> r.db,
           ret |-> [success |-> TRUE,
                    message |-> "Table " \o query.tableName \o " created"]]
     ELSE [db |-> r.db, ret |-> [success |-> FALSE, error |-> r.ret.error]]

executeDropTable(db, query) ==
  LET r == dropTable(db, query.tableName)
  IN IF r.ret.success
     THEN [db |-> r.db,
           ret |-> [success |-> TRUE,
                    message |-> "Table " \o query.tableName \o " dropped"]]
     ELSE [db |-> r.db, ret |-> [success |-> FALSE, error |-> r.ret.error]]

\* names.forEach((name, idx) => { row[name] = values[idx] })
zipRow(names, values) ==
  [k \in {names[i] : i \in 1..Len(names)} |->
     LET idx == CHOOSE i \in 1..Len(names) :
                  names[i] = k /\ \A j \in (i + 1)..Len(names) : names[j] # k
     IN IF idx <= Len(values) THEN values[idx] ELSE Undefined]

executeInsert(db, query) ==
  IF query.tableName \notin DOMAIN db.tables
  THEN [db |-> db,
        ret |-> [success |-> FALSE,
                 error |-> "Table " \o query.tableName \o " does not exist"]]
  ELSE
    LET table == db.tables[query.tableName]
        schema == table.schema
        row == IF "columns" \in DOMAIN query
               THEN zipRow(query.columns, query.values)
               ELSE zipRow([i \in 1..Len(schema.columns) |->
                              schema.columns[i].name], query.values)
        r == insert(table, row)
    IN IF r.ret.success
       THEN [db |-> [db EXCEPT !.tables[query.tableName] = r.table],
             ret |-> [success |-> TRUE, message |-> "1 row inserted",
                      rowCount |-> 1]]
       ELSE [db |-> [db EXCEPT !.tables[query.tableName] = r.table],
             ret |-> [success |-> FALSE, error |-> r.ret.error]]

\* the keys of row qualified as <tableName>.<key>
qualify(row, tableName) ==
  [q \in {tableName \o "." \o key : key \in DOMAIN row} |->
     row[CHOOSE key \in DOMAIN row : tableName \o "." \o key = q]]

\* the left object, then the entries of the right object written over it
assign(left, right) ==
  [k \in DOMAIN left \cup DOMAIN right |->
     IF k \in DOMAIN right THEN right[k] ELSE left[k]]

\* joinRow without lines 235-243: a left row without match is dropped
\* whatever the join type
joinRowInner(leftRow, rightRows, join, leftCol, rightCol, leftTableName, rightTableName) ==
  LET matches == SelectSeq(rightRows, LAMBDA rightRow :
                   Get(leftRow, leftCol) = Get(rightRow, rightCol))
  IN [m \in 1..Len(matches) |->
        assign(qualify(leftRow, leftTableName),
               qualify(matches[m], rightTableName))]

\* the rows executeJoin emits for one left row (QueryExecutor.ts 216-243)
joinRow(leftRow, rightRows, join, leftCol, rightCol, leftTableName, rightTableName) ==
  LET matches == SelectSeq(rightRows, LAMBDA rightRow :
                   Get(leftRow, leftCol) = Get(rightRow, rightCol))
  IN IF Len(matches) = 0 /\ join.type = "LEFT"
     THEN <<qualify(leftRow, leftTableName)>>
     ELSE [m \in 1..Len(matches) |->
             assign(qualify(leftRow, leftTableName),
                    qualify(matches[m], rightTableName))]

RECURSIVE joinRows(_, _, _, _, _, _, _, _)
joinRows(leftRows, rightRows, join, leftCol, rightCol, leftTableName, rightTableName, i) ==
  IF i > Len(leftRows) THEN <<>>
  ELSE joinRow(leftRows[i], rightRows, join, leftCol, rightCol,
               leftTableName, rightTableName)
         \o joinRows(leftRows, rightRows, join, leftCol, rightCol,
                     leftTableName, rightTableName, i + 1)

\* const [, col] = qualified.split('.')
secondPart(qualified) ==
  LET parts == split(Lit("."), qualified, FALSE)
  IN IF Len(parts) >= 2 THEN parts[2] ELSE "undefined"

executeJoin(leftRows, rightRows, join, leftTableName, rightTableName) ==
  joinRows(leftRows, rightRows, join, secondPart(join.on.leftColumn),
           secondPart(join.on.rightColumn), leftTableName, rightTableName, 1)

\* executeSelect with the WHERE conditions evaluated on the joined rows
executeSelectJoinFirst(db, query) ==
  IF query.from \notin DOMAIN db.tables
  THEN [db |-> db,
        ret |-> [success |-> FALSE,
                 error |-> "Table " \o query.from \o " does not exist"]]
  ELSE
    LET selected == select(db.tables[query.from], query.columns)
        joined == IF "join" \in DOMAIN query /\ query.join.table \in DOMAIN db.tables
                  THEN executeJoin(selected,
                                   select(db.tables[query.join.table], <<>>),
                                   query.join, query.from, query.join.table)
                  ELSE selected
        rows == IF "where" \in DOMAIN query
                THEN filterRows(joined, query.where) ELSE joined
    IN [db |-> db,
        ret |-> [success |-> TRUE, rows |-> rows, rowCount |-> Len(rows)]]

executeSelect(db, query) ==
  IF query.from \notin DOMAIN db.tables
  THEN [db |-> db,
        ret |-> [success |-> FALSE,
                 error |-> "Table " \o query.from \o " does not exist"]]
  ELSE
    LET table == db.tables[query.from]
        selected == select(table, query.columns)
        filtered == IF "where" \in DOMAIN query
                    THEN filterRows(selected, query.where) ELSE selected
    IN IF "join" \in DOMAIN query
       THEN IF query.join.table \notin DOMAIN db.tables
            THEN [db |-> db,
                  ret |-> [success |-> FALSE,
                           error |-> "Join table " \o query.join.table
                                       \o " does not exist"]]
            ELSE LET rows == executeJoin(filtered,
                                         select(db.tables[query.join.table], <<>>),
                                         query.join, query.from, query.join.table)
                 IN [db |-> db,
                     ret |-> [success |-> TRUE, rows |-> rows,
                              rowCount |-> Len(rows)]]
       ELSE [db |-> db,
             ret |-> [success |-> TRUE, rows |-> filtered,
                      rowCount |-> Len(filtered)]]

\* query.where ? (row) => this.evaluateWhere(row, query.where) : () => true
wherePredicate(query) ==
  IF "where" \in DOMAIN query THEN [where |-> query.where] ELSE [all |-> TRUE]

executeUpdate(db, query) ==
  IF query.tableName \notin DOMAIN db.tables
  THEN [db |-> db,
        ret |-> [success |-> FALSE,
                 error |-> "Table " \o query.tableName \o " does not exist"]]
  ELSE LET r == update(db.tables[query.tableName], query.set,
                       wherePredicate(query))
       IN [db |-> [db EXCEPT !.tables[query.tableName] = r.table],
           ret |-> [success |-> TRUE,
                    message |-> ToString(r.ret) \o " row(s) updated",
                    rowCount |-> r.ret]]

\* executeDelete answering with an (empty) row sequence next to its message
executeDeleteWithRows(db, query) ==
  IF query.from \notin DOMAIN db.tables
  THEN [db |-> db,
        ret |-> [success |-> FALSE,
                 error |-> "Table " \o query.from \o " does not exist"]]
  ELSE LET r == delete(db.tables[query.from], wherePredicate(query))
       IN [db |-> [db EXCEPT !.tables[query.from] = r.table],
           ret |-> [success |-> TRUE, rows |-> <<>>,
                    message |-> ToString(r.ret) \o " row(s) deleted",
                    rowCount |-> r.ret]]

executeDelete(db, query) ==
  IF query.from \notin DOMAIN db.tables
  THEN [db |-> db,
        ret |-> [success |-> FALSE,
                 error |-> "Table " \o query.from \o " does not exist"]]
  ELSE LET r == delete(db.tables[query.from], wherePredicate(query))
       IN [db |-> [db EXCEPT !.tables[query.from] = r.table],
           ret |-> [success |-> TRUE,
                    message |-> ToString(r.ret) \o " row(s) deleted",
                    rowCount |-> r.ret]]

executeShowTables(db) ==
  LET rows == [i \in 1..Len(db.order) |-> [table_name |-> Str(db.order[i])]]
  IN [db |-> db,
      ret |-> [success |-> TRUE, rows |-> rows, rowCount |-> Len(rows)]]

executeDescribe(db, query) ==
  IF query.tableName \notin DOMAIN db.tables
  THEN [db |-> db,
        ret |-> [success |-> FALSE,
                 error |-> "Table " \o query.tableName \o " does not exist"]]
  ELSE
    LET schema == db.tables[query.tableName].schema
        rows == [i \in 1..Len(schema.columns) |->
                   LET col == schema.columns[i]
                   IN [column |-> Str(col.name),
                       type |-> Str(col.type),
                       nullable |-> Str(IF col.nullable THEN "YES" ELSE "NO"),
                       key |-> Str(IF col.primaryKey THEN "PRI"
                                   ELSE IF col.unique THEN "UNI" ELSE "")]]
    IN [db |-> db,
        ret |-> [success |-> TRUE, rows |-> rows, rowCount |-> Len(rows)]]

\* execute (QueryExecutor.ts 19-47); no execute function of the model
\* throws, so its catch clause has no case
execute(db, query) ==
  CASE query.type = "CREATE_TABLE" -> executeCreateTable(db, query)
    [] query.type = "DROP_TABLE" -> executeDropTable(db, query)
    [] query.type = "INSERT" -> executeInsert(db, query)
    [] query.type = "SELECT" -> executeSelect(db, query)
    [] query.type = "UPDATE" -> executeUpdate(db, query)
    [] query.type = "DELETE" -> executeDelete(db, query)
    [] query.type = "SHOW_TABLES" -> executeShowTables(db)
    [] query.type = "DESCRIBE" -> executeDescribe(db, query)
    [] OTHER -> [db |-> db,
                 ret |-> [success |-> FALSE, error |-> "Unknown query type"]]

\* the query strings handed to RDBMS.query
Statements ==
  {"CREATE TABLE t (id number PRIMARY KEY, name string NOT NULL)",
   "CREATE TABLE t (a int PRIMARY KEY, b int PRIMARY KEY)",
   "CREATE TABLE t",
   "INSERT INTO t (id, name) VALUES (1, 'a')",
   "INSERT INTO t (id, name) VALUES (2, 'b')",
   "INSERT INTO t VALUES (2, 'a')",
   "INSERT INTO t (name) VALUES ('a')",
   "INSERT INTO t (id) VALUES (1)",
   "INSERT INTO t (id, name) VALUES ('x', 'a')",
   "INSERT INTO nosuch VALUES (1)",
   "INSERT INTO t",
   "SELECT * FROM t",
   "select * from t;",
   "SELECT name FROM t WHERE id = 2",
   "SELECT id, name FROM t WHERE id = 1",
   "SELECT * FROM t WHERE id >= 2",
   "SELECT * FROM t WHERE id <= 1",
   "SELECT * FROM t WHERE id > 1",
   "SELECT * FROM t WHERE id < 2",
   "SELECT * FROM t WHERE id != 1 AND name = 'b'",
   "SELECT * FROM t WHERE id",
   "SELECT * FROM nosuch",
   "SELECT * FROM t INNER JOIN nosuch ON t.id = nosuch.id",
   "SELECT",
   "UPDATE t SET name = 'c' WHERE id >= 2",
   "UPDATE t SET name = 'c' WHERE id <= 1",
   "UPDATE t SET name = 'c' WHERE id = 1",
   "UPDATE t SET name = 'x' WHERE id > 100",
   "UPDATE t SET id = 1",
   "UPDATE t SET name = 5",
   "UPDATE t SET id = 'x', name = 'd' WHERE id = 1",
   "UPDATE t SET name",
   "UPDATE nosuch SET a = 1",
   "DELETE FROM t WHERE id >= 2",
   "DELETE FROM t WHERE id <= 1",
   "DELETE FROM t WHERE id = 1",
   "DELETE FROM t",
   "DELETE FROM t WHERE id",
   "DELETE FROM nosuch",
   "DROP TABLE t",
   "DROP TABLE nosuch",
   "DROP TABLE",
   "SHOW TABLES",
   "DESCRIBE t",
   "DESC nosuch",
   "DESCRIBE",
   "FOO",
   ""}

\* the query strings of the CREATE TABLE / DESCRIBE round trip
DescribeStatements ==
  {"CREATE TABLE t (id number PRIMARY KEY, name string NOT NULL)",
   "CREATE TABLE u (id number PRIMARY KEY, code string UNIQUE, ok boolean, n number NOT NULL UNIQUE)",
   "INSERT INTO t (id, name) VALUES (1, 'a')",
   "INSERT INTO u (id, code, ok, n) VALUES (1, 'x', true, 5)",
   "UPDATE t SET name = 'c' WHERE id = 1",
   "UPDATE u SET ok = false",
   "DELETE FROM t",
   "DELETE FROM u WHERE id = 1",
   "SELECT * FROM u",
   "DROP TABLE u",
   "DESCRIBE t",
   "DESCRIBE u"}

\* the query strings of the joins (README, "Join Implementation")
JoinStatements ==
  {"CREATE TABLE books (id number PRIMARY KEY, author_id number, title string)",
   "CREATE TABLE authors (id number PRIMARY KEY, name string)",
   "INSERT INTO books (id, author_id, title) VALUES (1, 1, 'x')",
   "INSERT INTO books (id, author_id, title) VALUES (2, 1, 'y')",
   "INSERT INTO books (id, author_id, title) VALUES (3, 2, 'z')",
   "INSERT INTO books (id, title) VALUES (4, 'w')",
   "INSERT INTO authors (id, name) VALUES (1, 'p')",
   "INSERT INTO authors (id, name) VALUES (2, 'q')",
   "DELETE FROM books",
   "DELETE FROM authors",
   "SELECT * FROM books INNER JOIN authors ON books.author_id = authors.id",
   "SELECT * FROM books LEFT JOIN authors ON books.author_id = authors.id"}

\* the query strings of the column definitions of CREATE TABLE
TypeStatements ==
  {"CREATE TABLE v (a VARCHAR(10), b char(2), c text, d timestamp)",
   "CREATE TABLE n (a serial, b int, c integer, d number, e bigint)",
   "CREATE TABLE b (a bool, b BOOLEAN, c blob, d)",
   "CREATE TABLE d (id number, id string)",
   "INSERT INTO n (a, b, c) VALUES (1, 2, 3)",
   "INSERT INTO n (a, b) VALUES (1, 2)",
   "INSERT INTO b (a, b, c, d) VALUES (true, false, 'x', 'y')",
   "DESCRIBE n",
   "SHOW TABLES",
   "DROP TABLE v",
   "DROP TABLE n",
   "DROP TABLE b"}

\* the query strings of the join clauses: the written kind, the order of
\* the operands of ON, and WHERE together with JOIN
JoinClauseStatements ==
  {"CREATE TABLE books (id number PRIMARY KEY, author_id number, title string)",
   "CREATE TABLE authors (id number PRIMARY KEY, name string)",
   "CREATE TABLE leftovers (id number PRIMARY KEY, note string)",
   "INSERT INTO books (id, author_id, title) VALUES (1, 1, 'x')",
   "INSERT INTO books (id, author_id, title) VALUES (2, 3, 'left')",
   "INSERT INTO authors (id, name) VALUES (1, 'p')",
   "INSERT INTO authors (id, name) VALUES (2, 'q')",
   "INSERT INTO leftovers (id, note) VALUES (1, 'n')",
   "DROP TABLE authors",
   "SELECT * FROM books INNER JOIN leftovers ON books.id = leftovers.id",
   "SELECT * FROM books LEFT JOIN leftovers ON books.id = leftovers.id",
   "SELECT * FROM books INNER JOIN authors ON books.author_id = authors.id",
   "SELECT * FROM books INNER JOIN authors ON authors.id = books.author_id",
   "SELECT * FROM books INNER JOIN authors ON books.author_id = authors.id WHERE title = 'left'",
   "SELECT * FROM books INNER JOIN authors ON books.author_id = authors.id WHERE id = 1",
   "SELECT * FROM books LEFT JOIN authors ON books.author_id = authors.id WHERE id = 2",
   "SELECT * FROM books LEFT JOIN authors ON books.author_id = authors.id WHERE id > 5"}

\* the query strings of the row order
OrderStatements ==
  {"CREATE TABLE t (id number PRIMARY KEY, name string)",
   "INSERT INTO t (id, name) VALUES (3, 'a')",
   "INSERT INTO t (id, name) VALUES (1, 'b')",
   "INSERT INTO t (id, name) VALUES (2, 'c')",
   "UPDATE t SET name = 'z' WHERE id = 2",
   "UPDATE t SET id = 4 WHERE id = 1",
   "DELETE FROM t WHERE id = 3",
   "DELETE FROM t WHERE id <= 2",
   "DELETE FROM t WHERE name = 'z'",
   "SELECT * FROM t"}

\* the strings handed to REPL.execute
REPLStatements ==
  {"",
   "  ",
   "CREATE TABLE t (id number PRIMARY KEY, name string NOT NULL)",
   "INSERT INTO t (id, name) VALUES (1, 'a')",
   "INSERT INTO t (name) VALUES ('bb')",
   "SELECT * FROM t",
   "SELECT name FROM t",
   "DELETE FROM t",
   "SHOW TABLES",
   "FOO"}

\* the strings handed to REPL.execute for the rendering of a LEFT JOIN
REPLJoinStatements ==
  {"CREATE TABLE books (id number PRIMARY KEY, author_id number)",
   "CREATE TABLE authors (id number PRIMARY KEY, name string)",
   "INSERT INTO books (id, author_id) VALUES (1, 9)",
   "INSERT INTO books (id, author_id) VALUES (2, 1)",
   "INSERT INTO authors (id, name) VALUES (1, 'p')",
   "SELECT * FROM books LEFT JOIN authors ON books.author_id = authors.id"}

\* every query string of the model
AllStatements ==
  Statements \cup DescribeStatements \cup JoinStatements \cup REPLStatements
    \cup TypeStatements \cup JoinClauseStatements \cup OrderStatements
    \cup REPLJoinStatements

\* ------------------------------------------------------------------ RDBMS
\* RDBMS.query without its try / catch: the exception leaves the call
uncaught(db, message) == [db |-> db, ret |-> [thrown |-> message]]

\* the catch clause of RDBMS.query: the exception becomes a result
caught(db, message) ==
  [db |-> db, ret |-> [success |-> FALSE, error |-> message]]

\* parse(s) for every statement of the model, evaluated once
parseMemo == [s \in AllStatements |-> parse(s)]

\* query (RDBMS.ts 17-27)
query(db, sql) ==
  LET parsed == parseMemo[sql]
  IN IF parsed.threw THEN caught(db, parsed.error)
     ELSE execute(db, parsed.value)

\* ------------------------------------------------- the calls on the RDBMS
\* rdbms.query(sql) on tables that hold at most max rows
QueryUpTo(sql, max) ==
  LET r == query(database, sql)
  IN /\ \A t \in DOMAIN r.db.tables : Len(r.db.tables[t].rows) <= max
     /\ tables' = r.db.tables
     /\ tableOrder' = r.db.order
     /\ call' = [op |-> "query", sql |-> sql]
     /\ result' = r.ret
     /\ UNCHANGED history

Query(sql) == QueryUpTo(sql, MaxRows)

Next == \E sql \in Statements : Query(sql)

Spec == Init /\ [][Next]_vars

NextDescribe == \E sql \in DescribeStatements : Query(sql)

SpecDescribe == Init /\ [][NextDescribe]_vars

NextJoin == \E sql \in JoinStatements : Query(sql)

SpecJoin == Init /\ [][NextJoin]_vars

NextTypes == \E sql \in TypeStatements : Query(sql)

SpecTypes == Init /\ [][NextTypes]_vars

NextJoinClause == \E sql \in JoinClauseStatements : Query(sql)

SpecJoinClause == Init /\ [][NextJoinClause]_vars

NextOrder == \E sql \in OrderStatements : QueryUpTo(sql, MaxOrderRows)

SpecOrder == Init /\ [][NextOrder]_vars

\* ===================================================== claims on the RDBMS
\* the parsed query of the call made last
lastQuery == parseMemo[call.sql].value

\* C7: a SELECT with a column list and a WHERE clause returns the
\* projection onto the listed columns of exactly the stored rows that
\* satisfy every condition, also when a WHERE column is not listed.
C7_SelectFiltersStoredRows ==
  (/\ call.op = "query"
   /\ ~parseMemo[call.sql].threw
   /\ lastQuery.type = "SELECT"
   /\ "where" \in DOMAIN lastQuery
   /\ "join" \notin DOMAIN lastQuery
   /\ lastQuery.from \in DOMAIN tables)
    => /\ result.success
       /\ result.rows =
            select([tables[lastQuery.from] EXCEPT !.rows =
                      SelectSeq(@, LAMBDA row :
                                     evaluateWhere(row, lastQuery.where))],
                   lastQuery.columns)

\* statements of the model with a >= or <= condition on the number column
\* id, and the literal they compare with
C8Cases ==
  {[sql |-> "SELECT * FROM t WHERE id >= 2", operator |-> ">=", n |-> 2],
   [sql |-> "SELECT * FROM t WHERE id <= 1", operator |-> "<=", n |-> 1],
   [sql |-> "UPDATE t SET name = 'c' WHERE id >= 2", operator |-> ">=", n |-> 2],
   [sql |-> "UPDATE t SET name = 'c' WHERE id <= 1", operator |-> "<=", n |-> 1],
   [sql |-> "DELETE FROM t WHERE id >= 2", operator |-> ">=", n |-> 2],
   [sql |-> "DELETE FROM t WHERE id <= 1", operator |-> "<=", n |-> 1]}

\* row.id is a number that is >= n (respectively <= n)
C8Matches(row, case) ==
  /\ TypeOf(row["id"]) = "number"
  /\ IF case.operator = ">=" THEN row["id"].num >= case.n
     ELSE row["id"].num <= case.n

\* C8: a statement with WHERE id >= n (id <= n) is parsed into the
\* condition [id, >=, n] ([id, <=, n]) and selects, updates or deletes
\* exactly the rows whose id is greater (less) than or equal to n.
C8_GreaterEqualLessEqual ==
  [][\A case \in C8Cases :
       (call'.op = "query" /\ call'.sql = case.sql /\ "t" \in DOMAIN tables)
         => LET q == parseMemo[case.sql].value
                rows == tables["t"].rows
            IN /\ q.where = <<Cond("id", case.operator, Num(case.n))>>
               /\ q.type = "SELECT" =>
                    result'.rows =
                      SelectSeq(rows, LAMBDA row : C8Matches(row, case))
               /\ q.type = "DELETE" =>
                    tables'["t"].rows =
                      SelectSeq(rows, LAMBDA row : ~C8Matches(row, case))
               /\ q.type = "UPDATE" =>
                    tables'["t"].rows =
                      [i \in 1..Len(rows) |->
                         IF C8Matches(rows[i], case)
                         THEN [rows[i] EXCEPT !["name"] = Str("c")]
                         ELSE rows[i]]]_vars

\* an INSERT of row violates a constraint or a type of the table: null
\* for a NOT NULL column, a value of another type than the column's, or a
\* primary-key / unique value some row already holds
insertViolation(table, row) ==
  \E i \in 1..Len(table.schema.columns) :
    LET col == table.schema.columns[i]
        v == Get(row, col.name)
    IN IF v \in {Undefined, Null} THEN ~col.nullable /\ ~col.primaryKey
       ELSE \/ TypeOf(v) # col.type
            \/ /\ isIndexed(col)
               /\ \E k \in 1..Len(table.rows) : table.rows[k][col.name] = v

\* the statement sql fails on the database db: the parser throws, a table
\* it names is missing, CREATE TABLE is refused, or INSERT violates a
\* constraint or a type
failure(db, sql) ==
  \/ parseMemo[sql].threw
  \/ LET q == parseMemo[sql].value
     IN CASE q.type = "CREATE_TABLE" ->
               \/ q.tableName \in DOMAIN db
               \/ Cardinality({i \in 1..Len(q.columns) :
                                 q.columns[i].primaryKey}) > 1
          [] q.type = "DROP_TABLE" -> q.tableName \notin DOMAIN db
          [] q.type = "INSERT" ->
               \/ q.tableName \notin DOMAIN db
               \/ insertViolation(
                    db[q.tableName],
                    IF "columns" \in DOMAIN q THEN zipRow(q.columns, q.values)
                    ELSE zipRow([i \in 1..Len(db[q.tableName].schema.columns) |->
                                   db[q.tableName].schema.columns[i].name],
                                q.values))
          [] q.type = "SELECT" ->
               \/ q.from \notin DOMAIN db
               \/ "join" \in DOMAIN q /\ q.join.table \notin DOMAIN db
          [] q.type = "UPDATE" -> q.tableName \notin DOMAIN db
          [] q.type = "DELETE" -> q.from \notin DOMAIN db
          [] q.type = "DESCRIBE" -> q.tableName \notin DOMAIN db
          [] OTHER -> FALSE

\* C9: RDBMS.query always returns a result value, and a statement that
\* fails returns success=false with an error message.
C9_QueryNeverRaises ==
  [][call'.op = "query" =>
       /\ "success" \in DOMAIN result'
       /\ failure(tables, call'.sql) =>
            /\ ~result'.success
            /\ "error" \in DOMAIN result'
            /\ Len(result'.error) > 0]_vars

\* C9 witness: an exception thrown inside the parser (the TypeError of a
\* SET pair without '=') came back as a failed result.
C9_Witness ==
  /\ call.op = "query"
  /\ call.sql = "UPDATE t SET name"
  /\ ~result.success
  /\ result.error = "Cannot read properties of undefined (reading 'trim')"

\* C10: a result of RDBMS.query has exactly one of three forms: success
\* with rows (SELECT, SHOW TABLES, DESCRIBE) and no message or error,
\* success with a message (CREATE TABLE, DROP TABLE, INSERT, UPDATE,
\* DELETE) and no rows or error, or failure with an error and no rows or
\* message.
C10_ResultForms ==
  call.op = "query" =>
    \/ /\ result.success
       /\ {"rows", "message", "error"} \cap DOMAIN result = {"rows"}
       /\ lastQuery.type \in {"SELECT", "SHOW_TABLES", "DESCRIBE"}
    \/ /\ result.success
       /\ {"rows", "message", "error"} \cap DOMAIN result = {"message"}
       /\ lastQuery.type \in
            {"CREATE_TABLE", "DROP_TABLE", "INSERT", "UPDATE", "DELETE"}
    \/ /\ ~result.success
       /\ {"rows", "message", "error"} \cap DOMAIN result = {"error"}

\* C10 witness: a DELETE that removed a row answered with a message, no
\* rows and no error.
C10_Witness ==
  /\ call.op = "query"
  /\ result.success
  /\ lastQuery.type = "DELETE"
  /\ result.rowCount >= 1
  /\ DOMAIN result = {"success", "message", "rowCount"}

\* the tables a parsed statement other than CREATE TABLE names
namedTables(q) ==
  CASE q.type \in {"INSERT", "UPDATE", "DESCRIBE", "DROP_TABLE"} -> {q.tableName}
    [] q.type = "DELETE" -> {q.from}
    [] q.type = "SELECT" ->
         {q.from} \cup (IF "join" \in DOMAIN q THEN {q.join.table} ELSE {})
    [] OTHER -> {}

\* C11: an INSERT, SELECT (its JOIN table included), UPDATE, DELETE,
\* DESCRIBE or DROP TABLE that names a table that does not exist returns
\* success=false with an error saying that the table does not exist, and
\* leaves the set of tables and every table unchanged.
C11_MissingTable ==
  [][(/\ call'.op = "query"
      /\ ~parseMemo[call'.sql].threw
      /\ namedTables(parseMemo[call'.sql].value) \ DOMAIN tables # {})
       => /\ ~result'.success
          /\ \E t \in namedTables(parseMemo[call'.sql].value) \ DOMAIN tables :
               includes(result'.error, t \o " does not exist")
          /\ tables' = tables
          /\ tableOrder' = tableOrder]_vars

\* C11 witness: a SELECT on a table that holds a row failed on its missing
\* JOIN table.
C11_Witness ==
  /\ call.op = "query"
  /\ call.sql = "SELECT * FROM t INNER JOIN nosuch ON t.id = nosuch.id"
  /\ "t" \in DOMAIN tables
  /\ Len(tables["t"].rows) >= 1
  /\ ~result.success
  /\ result.error = "Join table nosuch does not exist"

\* the positions of the columns of schema marked primary key
primaryKeyPositions(schema) ==
  {i \in 1..Len(schema.columns) : schema.columns[i].primaryKey}

\* C12: Database.createTable fails, and changes no table, when the name is
\* in use or more than one column is marked primary key; so every table
\* has at most one primary-key column, whose name is the schema's cached
\* primaryKey.
C12_CreateTable ==
  /\ [][(/\ call'.op = "createTable"
         /\ \/ call'.schema.name \in DOMAIN tables
            \/ Cardinality(primaryKeyPositions(call'.schema)) > 1)
          => /\ ~result'.success
             /\ tables' = tables
             /\ tableOrder' = tableOrder]_vars
  /\ [](\A t \in DOMAIN tables :
          LET schema == tables[t].schema
          IN /\ Cardinality(primaryKeyPositions(schema)) <= 1
             /\ \A i \in primaryKeyPositions(schema) :
                  /\ "primaryKey" \in DOMAIN schema
                  /\ schema.primaryKey = schema.columns[i].name)

\* C12 witness: createTable was refused for a name whose table holds rows.
C12_Witness ==
  /\ call.op = "createTable"
  /\ ~result.success
  /\ result.error = "Table t already exists"
  /\ Len(tables["t"].rows) >= 1
  /\ tables["t"].schema.columns # call.schema.columns

\* the columns the CREATE TABLE statements of DescribeStatements declare
Declarations ==
  [t |-> <<[name |-> "id", type |-> "number", constraints |-> {"PRIMARY KEY"}],
           [name |-> "name", type |-> "string", constraints |-> {"NOT NULL"}]>>,
   u |-> <<[name |-> "id", type |-> "number", constraints |-> {"PRIMARY KEY"}],
           [name |-> "code", type |-> "string", constraints |-> {"UNIQUE"}],
           [name |-> "ok", type |-> "boolean", constraints |-> {}],
           [name |-> "n", type |-> "number",
            constraints |-> {"NOT NULL", "UNIQUE"}]>>]

\* the DESCRIBE row that reports the declared column d
declaredRow(d) ==
  [column |-> Str(d.name),
   type |-> Str(d.type),
   nullable |-> Str(IF d.constraints \cap {"PRIMARY KEY", "NOT NULL"} # {}
                    THEN "NO" ELSE "YES"),
   key |-> Str(IF "PRIMARY KEY" \in d.constraints THEN "PRI"
               ELSE IF "UNIQUE" \in d.constraints THEN "UNI" ELSE "")]

\* C13: DESCRIBE of an existing table returns, whatever INSERT, UPDATE,
\* DELETE and SELECT came after its CREATE TABLE, one row per declared
\* column in declaration order, with the declared name and type, nullable
\* NO exactly for PRIMARY KEY or NOT NULL, and key PRI / UNI / empty.
C13_DescribeRoundTrip ==
  [][(/\ call'.op = "query"
      /\ ~parseMemo[call'.sql].threw
      /\ parseMemo[call'.sql].value.type = "DESCRIBE"
      /\ parseMemo[call'.sql].value.tableName \in DOMAIN tables)
       => LET declared == Declarations[parseMemo[call'.sql].value.tableName]
          IN /\ result'.success
             /\ result'.rows =
                  [i \in 1..Len(declared) |-> declaredRow(declared[i])]]_vars

\* C13 witness: DESCRIBE u answered with four rows while u held an updated
\* row.
C13_Witness ==
  /\ call.op = "query"
  /\ call.sql = "DESCRIBE u"
  /\ result.success
  /\ Len(result.rows) = 4
  /\ "u" \in DOMAIN tables
  /\ Len(tables["u"].rows) = 1
  /\ tables["u"].rows[1]["ok"] = Bool(FALSE)

\* C14: a delete whose predicate matches k rows returns k and leaves
\* exactly the rows that do not match (k rows fewer); the same delete
\* repeated at once returns 0 and changes nothing; a delete without
\* condition removes every row.
C14_DeleteCount ==
  [][call'.op = "delete" =>
       LET rows == tables[call'.table].rows
           p == call'.predicate
           k == Cardinality({i \in 1..Len(rows) : predicate(p, rows[i])})
       IN /\ result' = k
          /\ tables'[call'.table].rows =
               SelectSeq(rows, LAMBDA row : ~predicate(p, row))
          /\ Len(tables'[call'.table].rows) = Len(rows) - k
          /\ "all" \in DOMAIN p => tables'[call'.table].rows = <<>>
          /\ (/\ call.op = "delete"
              /\ call.table = call'.table
              /\ call.predicate = p)
               => result' = 0 /\ tables' = tables]_vars

\* C14 witness: a delete removed one of two rows and left the other.
C14_Witness ==
  /\ call.op = "delete"
  /\ "where" \in DOMAIN call.predicate
  /\ result = 1
  /\ Len(tables[call.table].rows) = 1
  /\ ~predicate(call.predicate, tables[call.table].rows[1])

\* the join statement of JoinStatements of the given type
JoinStatement(type) ==
  "SELECT * FROM books " \o type
    \o " JOIN authors ON books.author_id = authors.id"

\* the positions of the authors rows that the books row l joins with
matchesOf(l) ==
  {j \in 1..Len(tables["authors"].rows) :
     l["author_id"] = tables["authors"].rows[j]["id"]}

\* x carries the columns of the books row l, qualified, and nothing else
isLeftOnly(x, l) ==
  /\ DOMAIN x = {"books." \o c : c \in DOMAIN l}
  /\ \A c \in DOMAIN l : x["books." \o c] = l[c]

\* x is the combined row of the books row l and the authors row r
isCombined(x, l, r) ==
  /\ DOMAIN x = {"books." \o c : c \in DOMAIN l}
                  \cup {"authors." \o c : c \in DOMAIN r}
  /\ \A c \in DOMAIN l : x["books." \o c] = l[c]
  /\ \A c \in DOMAIN r : x["authors." \o c] = r[c]

\* x is the combined row of some books row and an authors row it joins with
isJoined(x) ==
  \E i \in 1..Len(tables["books"].rows) :
    \E j \in matchesOf(tables["books"].rows[i]) :
      isCombined(x, tables["books"].rows[i], tables["authors"].rows[j])

C16_LeftJoinNullPadding ==
  [][(/\ call'.op = "query"
      /\ call'.sql = JoinStatement("LEFT")
      /\ {"books", "authors"} \subseteq DOMAIN tables)
       => LET books == tables["books"].rows
              left == result'.rows
          IN \A i \in 1..Len(books) :
               matchesOf(books[i]) = {} =>
                 \E k \in 1..Len(left) :
                   /\ \A c \in DOMAIN books[i] :
                        /\ "books." \o c \in DOMAIN left[k]
                        /\ left[k]["books." \o c] = books[i][c]
                   /\ \A c \in columnNames(tables["authors"]) :
                        /\ "authors." \o c \in DOMAIN left[k]
                        /\ left[k]["authors." \o c] = Null]_vars

\* C17: an UPDATE returns the number of rows that satisfy its WHERE clause
\* (all rows without one), changed or not, and leaves unchanged every row
\* that does not satisfy it and every column its SET list does not name;
\* when no row matches it reports "0 row(s) updated" and changes neither
\* rows nor indexes.
C17_UpdateCount ==
  [][(/\ call'.op = "query"
      /\ ~parseMemo[call'.sql].threw
      /\ parseMemo[call'.sql].value.type = "UPDATE"
      /\ parseMemo[call'.sql].value.tableName \in DOMAIN tables)
       => LET q == parseMemo[call'.sql].value
              rows == tables[q.tableName].rows
              after == tables'[q.tableName].rows
              matching == {i \in 1..Len(rows) :
                             "where" \in DOMAIN q =>
                               evaluateWhere(rows[i], q.where)}
              named == {q.set[k].key : k \in 1..Len(q.set)}
          IN /\ result'.success
             /\ result'.rowCount = Cardinality(matching)
             /\ result'.message =
                  ToString(Cardinality(matching)) \o " row(s) updated"
             /\ Len(after) = Len(rows)
             /\ \A i \in 1..Len(rows) :
                  /\ i \notin matching => after[i] = rows[i]
                  /\ DOMAIN after[i] = DOMAIN rows[i]
                  /\ \A c \in DOMAIN rows[i] \ named : after[i][c] = rows[i][c]
             /\ matching = {} =>
                  /\ result'.message = "0 row(s) updated"
                  /\ tables' = tables]_vars

\* C17 witness: an UPDATE without WHERE whose assignment was applied to no
\* field still counted both rows.
C17_Witness ==
  /\ call.op = "query"
  /\ call.sql = "UPDATE t SET name = 5"
  /\ result.success
  /\ result.rowCount = 2
  /\ \A i \in 1..2 : tables["t"].rows[i]["name"] # Num(5)

\* the declared type of the column named key of the table
typeOfColumn(table, key) ==
  table.schema.columns[CHOOSE j \in 1..Len(table.schema.columns) :
                         table.schema.columns[j].name = key].type

\* C18: an UPDATE that assigns a value of another type than the column's
\* still succeeds and counts every matched row; in every matched row that
\* field keeps its old value (the index of an indexed column is as before)
\* and the assignments of the statement with a value of the column's type
\* are applied.
C18_PermissiveUpdate ==
  [][(/\ call'.op = "query"
      /\ ~parseMemo[call'.sql].threw
      /\ parseMemo[call'.sql].value.type = "UPDATE"
      /\ parseMemo[call'.sql].value.tableName \in DOMAIN tables)
       => LET q == parseMemo[call'.sql].value
              table == tables[q.tableName]
              after == tables'[q.tableName]
              matching == {i \in 1..Len(table.rows) :
                             "where" \in DOMAIN q =>
                               evaluateWhere(table.rows[i], q.where)}
              entries == {k \in 1..Len(q.set) :
                            q.set[k].key \in columnNames(table)}
              invalid == {k \in entries :
                            TypeOf(q.set[k].value) #
                              typeOfColumn(table, q.set[k].key)}
          IN invalid # {} =>
               /\ result'.success
               /\ result'.rowCount = Cardinality(matching)
               /\ \A k \in invalid :
                    /\ \A i \in matching :
                         after.rows[i][q.set[k].key] =
                           table.rows[i][q.set[k].key]
                    /\ q.set[k].key \in DOMAIN table.indexes =>
                         after.indexes[q.set[k].key] =
                           table.indexes[q.set[k].key]
               /\ \A k \in entries \ invalid : \A i \in matching :
                    after.rows[i][q.set[k].key] = q.set[k].value]_vars

\* C18 witness: the UPDATE left id, for which it gave a string, as it was
\* and applied its assignment to name.
C18_Witness ==
  /\ call.op = "query"
  /\ call.sql = "UPDATE t SET id = 'x', name = 'd' WHERE id = 1"
  /\ result.success
  /\ result.rowCount = 1
  /\ \E i \in 1..Len(tables["t"].rows) :
       /\ tables["t"].rows[i]["id"] = Num(1)
       /\ tables["t"].rows[i]["name"] = Str("d")

\* ------------------------------------------------------------------- REPL
\* String(value) of a value of a row
String(v) ==
  CASE TypeOf(v) = "number" -> ToString(v.num)
    [] TypeOf(v) = "boolean" -> IF v.bool THEN "true" ELSE "false"
    [] TypeOf(v) = "string" -> v.str
    [] v = Null -> "null"
    [] v = NaN -> "NaN"
    [] OTHER -> "undefined"

\* String(row[col] ?? '') in place of String(row[col] ?? 'NULL')
cellBlank(row, col) ==
  IF Get(row, col) \in {Null, Undefined} THEN "" ELSE String(Get(row, col))

\* String(row[col] ?? 'NULL')
cell(row, col) ==
  IF Get(row, col) \in {Null, Undefined} THEN "NULL" ELSE String(Get(row, col))

\* s.repeat(n)
RECURSIVE repeat(_, _)
repeat(s, n) == IF n <= 0 THEN "" ELSE s \o repeat(s, n - 1)

\* s.padEnd(n)
padEnd(s, n) == s \o repeat(" ", n - Len(s))

\* parts.join(sep)
RECURSIVE join(_, _)
join(parts, sep) ==
  IF Len(parts) = 0 THEN ""
  ELSE IF Len(parts) = 1 THEN parts[1]
  ELSE parts[1] \o sep \o join(Tail(parts), sep)

\* Math.max(...ns)
RECURSIVE max(_)
max(ns) ==
  IF Len(ns) = 1 THEN ns[1]
  ELSE the({IF ns[1] >= m THEN ns[1] ELSE m : m \in {max(Tail(ns))}})

\* Object.keys(row).  The rows of the model do not keep the order in which
\* their keys were set, so the keys are listed in code-unit order.
RECURSIVE keys(_)
keys(row) ==
  IF DOMAIN row = {} THEN <<>>
  ELSE the({<<first>> \o keys([k \in DOMAIN row \ {first} |-> row[k]]) :
            first \in {CHOOSE k \in DOMAIN row :
                         \A k2 \in DOMAIN row \ {k} : lexLess(k, k2)}})

\* formatTable (REPL.ts 52-78)
formatTable(rows) ==
  IF Len(rows) = 0 THEN "Empty result set"
  ELSE
    the({the({LET separator ==
                    "+" \o join([i \in 1..Len(columns) |->
                                   repeat("-", columnWidths[i] + 2)], "+")
                        \o "+"
                  header ==
                    "|" \o join([i \in 1..Len(columns) |->
                                   " " \o padEnd(columns[i], columnWidths[i])
                                       \o " "], "|")
                        \o "|"
                  rowStrings ==
                    [r \in 1..Len(rows) |->
                       "|" \o join([i \in 1..Len(columns) |->
                                      " " \o padEnd(cell(rows[r], columns[i]),
                                                    columnWidths[i])
                                          \o " "], "|")
                           \o "|"]
              IN join(<<separator, header, separator>> \o rowStrings
                        \o <<separator, ToString(Len(rows)) \o " row(s)">>,
                      "\n") :
              columnWidths \in
                {[i \in 1..Len(columns) |->
                    max(<<Len(columns[i])>> \o
                        [r \in 1..Len(rows) |->
                           Len(cell(rows[r], columns[i]))])]}}) :
         columns \in {keys(rows[1])}})

\* formatResult (REPL.ts 32-50); a message that is the empty string and an
\* error that is undefined are what JavaScript makes of them
formatResult(res) ==
  IF ~res.success
  THEN "ERROR: " \o (IF "error" \in DOMAIN res THEN res.error ELSE "undefined")
  ELSE IF "message" \in DOMAIN res /\ res.message # "" THEN res.message
  ELSE IF "rows" \in DOMAIN res /\ Len(res.rows) > 0 THEN formatTable(res.rows)
  ELSE IF "rows" \in DOMAIN res /\ Len(res.rows) = 0 THEN "Empty result set"
  ELSE "OK"

\* REPL.execute (REPL.ts 13-22) returns [db |-> the Database afterwards,
\* history |-> the history afterwards, ret |-> the text]
REPLexecute(db, hist, sql) ==
  IF trim(sql) = "" THEN [db |-> db, history |-> hist, ret |-> ""]
  ELSE the({[db |-> r.db, history |-> Append(hist, sql),
             ret |-> formatResult(r.ret)] :
            r \in {query(db, sql)}})

\* getHistory with return this.history in place of the copy
getHistoryShared(hist) == [items |-> hist, sameArray |-> TRUE]

\* getHistory (REPL.ts 24-26): [...this.history] is a new array with the
\* items of the history; sameArray tells whether the array returned is the
\* array REPL.history
getHistory(hist) == [items |-> hist, sameArray |-> FALSE]

\* clearHistory (REPL.ts 28-30)
clearHistory(hist) == <<>>

\* --------------------------------------------------- the calls on the REPL
Execute(sql) ==
  LET r == REPLexecute(database, history, sql)
  IN /\ Len(r.history) <= MaxHistory
     /\ \A t \in DOMAIN r.db.tables : Len(r.db.tables[t].rows) <= MaxRows
     /\ tables' = r.db.tables
     /\ tableOrder' = r.db.order
     /\ history' = r.history
     /\ call' = [op |-> "execute", sql |-> sql]
     /\ result' = r.ret

GetHistory ==
  /\ call' = [op |-> "getHistory"]
  /\ result' = getHistory(history)
  /\ UNCHANGED <<tables, tableOrder, history>>

ClearHistory ==
  /\ history' = clearHistory(history)
  /\ call' = [op |-> "clearHistory"]
  /\ result' = Undefined
  /\ UNCHANGED <<tables, tableOrder>>

\* the caller pushes an item onto the array that getHistory returned
PushReturned(item) ==
  /\ call.op \in {"getHistory", "push"}
  /\ Len(result.items) <= MaxHistory
  /\ result' = [result EXCEPT !.items = Append(@, item)]
  /\ history' = IF result.sameArray THEN result'.items ELSE history
  /\ call' = [op |-> "push", item |-> item]
  /\ UNCHANGED <<tables, tableOrder>>

NextREPL ==
  \/ \E sql \in REPLStatements : Execute(sql)
  \/ GetHistory
  \/ ClearHistory
  \/ PushReturned("x")

SpecREPL == Init /\ [][NextREPL]_vars

NextREPLJoin ==
  \/ \E sql \in REPLJoinStatements : Execute(sql)
  \/ ClearHistory

SpecREPLJoin == Init /\ [][NextREPLJoin]_vars

\* the pieces of text between the occurrences of the character ch
RECURSIVE splitOn(_, _)
splitOn(text, ch) ==
  IF \A i \in 1..Len(text) : charAt(text, i) # ch THEN <<text>>
  ELSE LET i == CHOOSE i \in 1..Len(text) :
                  /\ charAt(text, i) = ch
                  /\ \A j \in 1..(i - 1) : charAt(text, j) # ch
       IN <<SubSeq(text, 1, i - 1)>> \o splitOn(SubSeq(text, i + 1, Len(text)), ch)

\* the cells of a line "| a | b |" of a table, without their padding
cellsOf(line) ==
  LET parts == splitOn(line, "|")
  IN [i \in 1..(Len(parts) - 2) |-> trim(parts[i + 1])]

\* text is a bordered table of the rows: divider, header line of the column
\* names, divider, one line per row whose cells are the values of the row
\* under the header's names with NULL for null, divider, "<n> row(s)"
isTableOf(text, rows) ==
  LET ls == splitOn(text, "\n")
      n == Len(rows)
  IN /\ Len(ls) = n + 5
     /\ LET divider == ls[1]
            columns == cellsOf(ls[2])
        IN /\ ls[3] = divider /\ ls[n + 4] = divider
           /\ \A i \in 1..Len(divider) : charAt(divider, i) \in {"+", "-"}
           /\ \A k \in 1..(n + 4) :
                /\ Len(ls[k]) = Len(divider)
                /\ charAt(ls[k], 1) = charAt(ls[k], Len(ls[k]))
                /\ charAt(ls[k], 1) = (IF ls[k] = divider THEN "+" ELSE "|")
           /\ Len(columns) = Cardinality(DOMAIN rows[1])
           /\ {columns[i] : i \in 1..Len(columns)} = DOMAIN rows[1]
           /\ \A r \in 1..n :
                LET cells == cellsOf(ls[3 + r])
                IN /\ Len(cells) = Len(columns)
                   /\ \A i \in 1..Len(columns) :
                        cells[i] = (IF Get(rows[r], columns[i]) \in {Null, Undefined}
                                    THEN "NULL"
                                    ELSE String(Get(rows[r], columns[i])))
           /\ ls[n + 5] = ToString(n) \o " row(s)"

\* C19: REPL.execute of a query that is not blank renders the result of the
\* query in exactly one of four forms chosen by the result: a failure as
\* "ERROR: <error>"; a success with a message as that message; a success
\* with an empty row sequence as "Empty result set"; a success with n >= 1
\* rows as a bordered table with one header line, one line per row (null
\* shown as NULL) and a final line "<n> row(s)".
C19_RenderedForms ==
  [][(call'.op = "execute" /\ trim(call'.sql) # "") =>
       LET res == query(database, call'.sql).ret
           isFailure == ~res.success
           isMessage == res.success /\ "message" \in DOMAIN res
           isEmpty == /\ res.success /\ "message" \notin DOMAIN res
                      /\ "rows" \in DOMAIN res /\ Len(res.rows) = 0
           isRows == /\ res.success /\ "message" \notin DOMAIN res
                     /\ "rows" \in DOMAIN res /\ Len(res.rows) >= 1
       IN /\ isFailure \/ isMessage \/ isEmpty \/ isRows
          /\ isFailure => result' = "ERROR: " \o res.error
          /\ isMessage => result' = res.message
          /\ isEmpty => result' = "Empty result set"
          /\ isRows => isTableOf(result', res.rows)]_vars

\* a table of two rows was rendered, one of them with a NULL cell
C19_Witness ==
  /\ call.op = "execute"
  /\ call.sql = "SELECT * FROM t"
  /\ "t" \in DOMAIN tables
  /\ Len(tables["t"].rows) = 2
  /\ \E r \in 1..2 : tables["t"].rows[r]["id"] = Null
  /\ isTableOf(result, tables["t"].rows)
  /\ \E k \in 4..5 :
       LET cells == cellsOf(splitOn(result, "\n")[k])
       IN \E i \in 1..Len(cells) : cells[i] = "NULL"

\* C20: REPL history.  A query that is not blank is appended to the history
\* by execute, whether or not its execution fails; a blank query returns the
\* empty string, is not recorded and is not run against the database;
\* clearHistory empties the history; getHistory returns the items of the
\* history in call order and leaves the history alone; a push onto the
\* sequence getHistory returned does not change the history.  Hence
\* getHistory returns exactly the non-blank queries executed since the last
\* clearHistory.
C20_History ==
  [][/\ (call'.op = "execute" /\ trim(call'.sql) # "") =>
          history' = Append(history, call'.sql)
     /\ (call'.op = "execute" /\ trim(call'.sql) = "") =>
          /\ result' = ""
          /\ UNCHANGED <<history, tables, tableOrder>>
     /\ call'.op = "clearHistory" => history' = <<>>
     /\ call'.op = "getHistory" =>
          /\ result'.items = history
          /\ history' = history
     /\ call'.op = "push" =>
          /\ history' = history
          /\ result'.items = Append(result.items, call'.item)]_vars

\* a failed query and a later one are in the history in call order, and the
\* sequence getHistory returned was pushed onto without changing the history
C20_Witness ==
  /\ call.op = "push"
  /\ history = <<"FOO", "SELECT * FROM t">>
  /\ result.items = <<"FOO", "SELECT * FROM t", "x">>
  /\ "t" \notin DOMAIN tables

\* the ColumnType the type tokens of TypeStatements are said to become, by
\* table and position of the column
NormalizedTypes ==
  [v |-> <<"string", "string", "string", "string">>,
   n |-> <<"number", "number", "number", "number", "number">>,
   b |-> <<"boolean", "boolean", "string", "string">>,
   d |-> <<"number", "string">>]

\* C21: column-type normalization in CREATE TABLE: varchar(...), char(...),
\* text and timestamp become string; serial, int, integer, number and bigint
\* become number; bool and boolean become boolean; every other token (and a
\* missing one) becomes string, and no such statement is rejected.
C21_TypeNormalization ==
  /\ \A t \in DOMAIN tables :
       /\ Len(tables[t].schema.columns) = Len(NormalizedTypes[t])
       /\ \A i \in 1..Len(tables[t].schema.columns) :
            tables[t].schema.columns[i].type = NormalizedTypes[t][i]
  /\ (call.op = "query" /\ startsWith(call.sql, "CREATE TABLE")
        /\ ~result.success) =>
       result.error = "Table " \o parseMemo[call.sql].value.tableName
                        \o " already exists"

\* the kind of join a statement is written with
writtenKind(sql) ==
  IF includes(toUpperCase(sql), " INNER JOIN ") THEN "INNER" ELSE "LEFT"

\* C22: join kind detection: a SELECT with one join clause is parsed with
\* join type INNER when the clause is written INNER JOIN and LEFT when it is
\* written LEFT JOIN, whatever other text the statement contains (table
\* names, column names or WHERE literals that contain the letters "left").
C22_JoinKind ==
  (/\ call.op = "query"
   /\ includes(toUpperCase(call.sql), " JOIN ")) =>
    /\ ~parseMemo[call.sql].threw
    /\ "join" \in DOMAIN parseMemo[call.sql].value
    /\ parseMemo[call.sql].value.join.type = writtenKind(call.sql)

\* C23: in a SELECT * with both WHERE and JOIN on an existing FROM table, a
\* missing join table fails the statement even when no left row passes the
\* filter; otherwise the rows returned are the join of the FROM table's rows
\* that pass the WHERE conditions, in their order, with every row of the
\* join table: the WHERE removes no right-table row and no joined row.
C23_WhereBeforeJoin ==
  [][(/\ call'.op = "query"
      /\ includes(call'.sql, " JOIN ")
      /\ includes(call'.sql, " WHERE ")
      /\ parseMemo[call'.sql].value.from \in DOMAIN tables) =>
       LET q == parseMemo[call'.sql].value
           left == tables[q.from].rows
           passing == SelectSeq(left, LAMBDA row : evaluateWhere(row, q.where))
       IN IF q.join.table \notin DOMAIN tables
          THEN /\ ~result'.success
               /\ result'.error = "Join table " \o q.join.table \o " does not exist"
          ELSE /\ result'.success
               /\ result'.rows = executeJoin(passing, tables[q.join.table].rows,
                                             q.join, q.from, q.join.table)
               /\ result'.rowCount = Len(result'.rows)
               /\ \A k \in 1..Len(result'.rows) :
                    \E i \in 1..Len(passing) :
                      \A c \in DOMAIN passing[i] :
                        Get(result'.rows[k], q.from \o "." \o c) = passing[i][c]]_vars

\* of two books only the one with id 1 passed the WHERE and was joined with
\* its author, whose row does not satisfy the WHERE of the statement
C23_Witness ==
  /\ call.op = "query"
  /\ call.sql = "SELECT * FROM books INNER JOIN authors ON books.author_id = authors.id WHERE id = 1"
  /\ {"books", "authors"} \subseteq DOMAIN tables
  /\ Len(tables["books"].rows) = 2
  /\ Len(tables["authors"].rows) = 2
  /\ result.success
  /\ Len(result.rows) = 1
  /\ result.rows[1]["books.id"] = Num(1)
  /\ result.rows[1]["authors.name"] = Str("p")

\* C28: the join result does not depend on the order of the two operands of
\* ON: with the same tables, ... ON books.author_id = authors.id and
\* ... ON authors.id = books.author_id return the same rows.
C28_OnOperandOrder ==
  [][(/\ call'.op = "query"
      /\ call'.sql = "SELECT * FROM books INNER JOIN authors ON authors.id = books.author_id") =>
       result' = query(database,
                       "SELECT * FROM books INNER JOIN authors ON books.author_id = authors.id").ret]_vars

\* C24: row order.  A successful INSERT places the new row after all
\* existing rows without moving them, a failed one changes nothing; an
\* UPDATE keeps every row at its position; a DELETE keeps the remaining rows
\* in their previous relative order; SELECT * returns the rows in the order
\* of the table.  Hence SELECT * returns the surviving rows in the order in
\* which they were inserted.
C24_RowOrder ==
  [][(/\ call'.op = "query"
      /\ ~parseMemo[call'.sql].threw
      /\ parseMemo[call'.sql].value.type \in {"INSERT", "UPDATE", "DELETE", "SELECT"}
      /\ "t" \in DOMAIN tables) =>
       LET q == parseMemo[call'.sql].value
           rows == tables["t"].rows
           after == tables'["t"].rows
           passes(row) == "where" \in DOMAIN q => evaluateWhere(row, q.where)
       IN CASE q.type = "INSERT" ->
                 IF result'.success
                 THEN /\ Len(after) = Len(rows) + 1
                      /\ SubSeq(after, 1, Len(rows)) = rows
                 ELSE after = rows
            [] q.type = "UPDATE" ->
                 /\ Len(after) = Len(rows)
                 /\ \A i \in 1..Len(rows) :
                      /\ ~passes(rows[i]) => after[i] = rows[i]
                      /\ \A c \in DOMAIN rows[i] :
                           (\A k \in 1..Len(q.set) : q.set[k].key # c) =>
                             after[i][c] = rows[i][c]
            [] q.type = "DELETE" ->
                 after = SelectSeq(rows, LAMBDA row : ~passes(row))
            [] q.type = "SELECT" ->
                 /\ after = rows
                 /\ result'.success
                 /\ result'.rows = rows]_vars

\* a DELETE removed one of three rows and left the rows with ids 1 and 2,
\* inserted in that order, in that order
C24_Witness ==
  /\ call.op = "query"
  /\ call.sql = "DELETE FROM t WHERE id = 3"
  /\ result.success
  /\ result.rowCount = 1
  /\ Len(tables["t"].rows) = 2
  /\ tables["t"].rows[1]["id"] = Num(1)
  /\ tables["t"].rows[2]["id"] = Num(2)

C26_ShowTables ==
  [][call'.op = "query" =>
       LET parsed == parseMemo[call'.sql]
           succeeded(type) == /\ ~parsed.threw
                              /\ parsed.value.type = type
                              /\ result'.success
       IN /\ IF succeeded("CREATE_TABLE")
             THEN /\ parsed.value.tableName \notin DOMAIN tables
                  /\ DOMAIN tables' = DOMAIN tables \cup {parsed.value.tableName}
             ELSE IF succeeded("DROP_TABLE")
             THEN /\ parsed.value.tableName \in DOMAIN tables
                  /\ DOMAIN tables' = DOMAIN tables \ {parsed.value.tableName}
             ELSE DOMAIN tables' = DOMAIN tables
          /\ call'.sql = "SHOW TABLES" =>
               /\ result'.success
               /\ result'.rowCount = Cardinality(DOMAIN tables)
               /\ Len(result'.rows) = Cardinality(DOMAIN tables)
               /\ \A i \in 1..Len(result'.rows) :
                    /\ DOMAIN result'.rows[i] = {"table_name"}
                    /\ \A j \in 1..Len(result'.rows) :
                         result'.rows[i] = result'.rows[j] => i = j
               /\ {result'.rows[i]["table_name"] : i \in 1..Len(result'.rows)}
                    = {Str(t) : t \in DOMAIN tables}]_vars

\* SHOW TABLES listed the two tables that exist
C26_Witness ==
  /\ call.op = "query"
  /\ call.sql = "SHOW TABLES"
  /\ result.success
  /\ result.rowCount = 2
  /\ result.rows = <<[table_name |-> Str("n")], [table_name |-> Str("v")]>>
  /\ DOMAIN tables = {"n", "v"}
  /\ Len(tables["n"].rows) = 1

\* C27: column names are unique within a table: no table exists whose schema
\* has two columns with the same name.
C27_UniqueColumnNames ==
  \A t \in DOMAIN tables :
    \A i, j \in 1..Len(tables[t].schema.columns) :
      tables[t].schema.columns[i].name = tables[t].schema.columns[j].name
        => i = j

\* C29: the table rendered by the REPL shows every column that occurs in any
\* row of the result: the cells of the header line are the columns of all
\* the rows, and the line of a row shows the value of each column the row
\* has under that column's name.
C29_RenderedColumns ==
  [][(/\ call'.op = "execute"
      /\ includes(call'.sql, " LEFT JOIN ")
      /\ query(database, call'.sql).ret.success
      /\ Len(query(database, call'.sql).ret.rows) >= 1) =>
       LET rows == query(database, call'.sql).ret.rows
           ls == splitOn(result', "\n")
           header == cellsOf(ls[2])
       IN /\ {header[i] : i \in 1..Len(header)}
               = UNION {DOMAIN rows[r] : r \in 1..Len(rows)}
          /\ \A r \in 1..Len(rows) :
               \A c \in DOMAIN rows[r] :
                 \E i \in 1..Len(header) :
                   /\ header[i] = c
                   /\ cellsOf(ls[3 + r])[i] = String(rows[r][c])]_vars

====
